---------------------------- MODULE Spec2Model ----------------------------
(***************************************************************************)
(* Model of the XVC server (xvcd_server.py), its MPSSE shift engine        *)
(* (adapters/pyftdi.py) and the custom JTAG controller                     *)
(* (adapters/pyftdi_jtagc.py).                                             *)
(*                                                                         *)
(* Bit vectors are sequences over {0,1}; Python index i is TLA+ index i+1. *)
(* A byte that is handled bit-wise (bitstring) is an 8-element sequence,   *)
(* most significant bit first, as bitstring indexes it.                    *)
(***************************************************************************)
EXTENDS Integers, Sequences, FiniteSets, TLC

VARIABLES
    verbose,               \* opts.verbose / adapter verbosity_level
    adapter,               \* which adapter module was loaded: "mpsse" | "gpio"
    fifo,                  \* <<FTDI_WRITE_PIPE_LEN, FTDI_READ_PIPE_LEN>>
    has_client_connected,  \* server.has_client_connected
    pc,                    \* where the server is: "listening" | "loop" | engine phases
    tap_state,             \* software TAP tracker (jtag.get_state())
    tms_line,              \* level latched on the adapter's TMS pin
    target,                \* what the device under test answers on TDO
    cmd,                   \* the command the handler processed last
    reply,                 \* the payloads passed to request.sendall for it
    tms_stream,            \* send_data argument
    tdi_stream,            \* send_data argument
    engine,                \* what send_data did: sub-calls, clocks, result
    net,                   \* connections: the listen queue and whose session runs
    sock,                  \* the TCP stream of the session: bytes sent, bytes consumed
    device                 \* the FTDI device handle of the JtagController

vars == <<verbose, adapter, fifo, has_client_connected, pc, tap_state,
          tms_line, target, cmd, reply, tms_stream, tdi_stream, engine, net,
          sock, device>>

---------------------------------------------------------------------------
(* Bounds of the model.                                                    *)

\* longest TMS/TDI vector handed to the shift engine on its own
MaxBits == 9

\* up to this length every TDI vector is tried, above it the TDI patterns
MaxFullTdi == 5

\* shift: commands of a session carry every TMS vector up to this length ...
MaxShiftBits == 4

\* ... and all-zero and all-one TMS vectors up to this length
MaxLongBits == 9

---------------------------------------------------------------------------
(* Bit-vector primitives (the bitstring operations the code uses).         *)

BIT == {0, 1}

\* a stale bit of a byte returned by the MPSSE: no sample was shifted into it
X == -1

Min(a, b) == IF a < b THEN a ELSE b

BitVectors(n) == [1..n -> BIT]

At(s, i) == s[i + 1]

\* s[a:b]
Slice(s, a, b) == SubSeq(s, a + 1, Min(b, Len(s)))

Reverse(s) == [i \in 1..Len(s) |-> s[Len(s) + 1 - i]]

Zeros(n) == [i \in 1..n |-> 0]

Ones(n) == [i \in 1..n |-> 1]

\* BitStream.find(bit, start=head): the smallest index >= head holding bit,
\* or -1 for the empty tuple find returns when there is none
Find(s, bit, head) ==
    LET hits == {i \in head..(Len(s) - 1) : At(s, i) = bit}
    IN  IF hits = {} THEN -1
        ELSE CHOOSE i \in hits : \A j \in hits : i <= j

\* BitArray.uint of a whole byte
Uint(b) ==
    b[1] * 128 + b[2] * 64 + b[3] * 32 + b[4] * 16 + b[5] * 8 + b[6] * 4 + b[7] * 2 + b[8]

---------------------------------------------------------------------------
(* The device under test and the MPSSE, as the controller's code relies    *)
(* on them.                                                                *)

\* What the device answers on TDO at clock number i of a shift (counted from 0)
\* while tdi is driven: "tag" answers the clock's own number, so that a sample
\* is known by the clock it was taken on; "ones" is an idle TDO line;
\* "loopback" is TDI wired to TDO.
Targets == {"tag", "ones", "loopback"}

TargetTdo(tgt, i, tdi) ==
    CASE tgt = "tag" -> i
      [] tgt = "ones" -> 1
      [] OTHER -> tdi

\* One TCK clock: the levels driven and the TDO level sampled
Clock(tms, tdi, tgt, i) == [tms |-> tms, tdi |-> tdi, tdo |-> TargetTdo(tgt, i, tdi)]

\* RW_BITS_TMS_PVE_NVE: clock number k (from 1) drives bit k-1 of the payload
\* byte on TMS and bit 7 on TDI
MpsseTmsClocks(byte, length, base, tgt) ==
    [k \in 1..length |-> Clock(byte[9 - k], byte[1], tgt, base + k - 1)]

\* ... the first sample enters the answer byte at bit 7 and moves right with
\* every further sample: the last sample is at bit 7 afterwards
MpsseTmsAnswer(clocks) ==
    [j \in 1..8 |-> IF j <= Len(clocks) THEN clocks[Len(clocks) + 1 - j].tdo ELSE X]

\* RW_BITS_PVE_NVE_MSB: clock number k drives bit 8-k of the payload byte on
\* TDI; TMS keeps its latched level
MpsseBitsClocks(byte, length, line, base, tgt) ==
    [k \in 1..length |-> Clock(line, byte[k], tgt, base + k - 1)]

\* ... the samples enter the answer byte at bit 0 and move left
MpsseBitsAnswer(clocks) ==
    [j \in 1..8 |-> IF j > 8 - Len(clocks) THEN clocks[j - (8 - Len(clocks))].tdo ELSE X]

\* RW_BYTES_PVE_NVE_MSB: every payload byte goes out most significant bit
\* first, and the answer bytes hold the samples in the same order
MpsseBytesClocks(bits, line, base, tgt) ==
    [k \in 1..Len(bits) |-> Clock(line, bits[k], tgt, base + k - 1)]

MpsseBytesAnswer(clocks) == [k \in 1..Len(clocks) |-> clocks[k].tdo]

---------------------------------------------------------------------------
(* JtagController (adapters/pyftdi_jtagc.py).                              *)
(*                                                                         *)
(* An operation is modelled by what it adds to the record of one shift:    *)
(*   ok      FALSE once an operation has raised JtagError                  *)
(*   tdo     the TDO bits returned so far, in order                        *)
(*   clocks  the TCK clocks the MPSSE has produced                         *)
(*   usb     the USB round trips made                                      *)
(*   line    the level latched on the TMS pin                              *)
(*   entry   the level of the TMS pin when the shift began                 *)
(*   calls, head, warned   the shift engine's own record (see send_data)   *)
(* and e is what it runs against: e.ff the FIFO sizes, e.tgt the device,   *)
(* e.shortAt the number (from 1; 0 for none) of the USB read of this shift *)
(* that returns fewer bytes than demanded.                                 *)

FTDI_WR_BUFFER_MAX_LEN(ff) == ff[1] - 3

FTDI_RD_BUFFER_MAX_LEN(ff) == ff[2] - 2

max_byte_sizes(ff) ==
    <<FTDI_WR_BUFFER_MAX_LEN(ff), FTDI_WR_BUFFER_MAX_LEN(ff), FTDI_RD_BUFFER_MAX_LEN(ff)>>

Env(ff, tgt, shortAt, verbosity_level) ==
    [ff |-> ff, tgt |-> tgt, shortAt |-> shortAt, verbosity_level |-> verbosity_level]

Fresh(line) ==
    [ok |-> TRUE, tdo |-> <<>>, clocks |-> <<>>, usb |-> <<>>, line |-> line,
     entry |-> line, calls |-> <<>>, head |-> 0, warned |-> FALSE]

\* raise JtagError before anything is stacked
Raise(acc) == [acc EXCEPT !.ok = FALSE, !.tdo = <<>>]

\* an MPSSE command: opcode, length field, number of payload bytes
Cmd(op, len, nbytes) == [op |-> op, len |-> len, nbytes |-> nbytes]

\* bytes the command takes in the write buffer
CmdBytes(c) == (IF c.op = "RW_BYTES_PVE_NVE_MSB" THEN 3 ELSE 2) + c.nbytes

\* (mutant) a short read is not checked: the bits are taken as they are
RoundTrip_ShortIgnored(acc, c, payload, demand, clocks, bits, line, e) ==
    [acc EXCEPT !.tdo = @ \o bits,
                !.clocks = @ \o clocks,
                !.usb = Append(@, [cmd |-> c, payload |-> payload,
                                   written |-> CmdBytes(c) + 1, demand |-> demand]),
                !.line = line]

\* One USB round trip: _stack_cmd on the empty buffer, sync (the command and
\* SEND_IMMEDIATE are written), read_data_bytes(demand); then the length
\* check on the data read, and the decoded bits are returned
RoundTrip(acc, c, payload, demand, clocks, bits, line, e) ==
    LET trip == [cmd |-> c, payload |-> payload, written |-> CmdBytes(c) + 1,
                 demand |-> demand]
        short == e.shortAt = Len(acc.usb) + 1
    IN  [acc EXCEPT !.ok = @ /\ ~short,
                    !.tdo = IF acc.ok /\ ~short THEN @ \o bits ELSE <<>>,
                    !.clocks = @ \o clocks,
                    !.usb = Append(@, trip),
                    !.line = line]

\* (mutant) the TMS bits are not reversed before the zeros are prepended
TmsPayload_NoReverse(tms, tdi) ==
    [j \in 1..8 |-> IF j = 1 THEN tdi
                    ELSE IF j <= 8 - Len(tms) THEN 0
                    ELSE tms[j - (8 - Len(tms))]]

\* the payload byte of a TMS command: the TMS bits reversed, zeros prepended
\* to 8 bits, the left-most bit overwritten with the TDI level
TmsPayload(tms, tdi) ==
    [j \in 1..8 |-> IF j = 1 THEN tdi
                    ELSE IF j <= 8 - Len(tms) THEN 0
                    ELSE Reverse(tms)[j - (8 - Len(tms))]]

\* (mutant) the answer is cut to length bits and not reversed
TmsDecode_NoReverse(answer, length) == Slice(answer, 0, length)

\* (mutant) the answer byte is reversed without cutting it to length bits
TmsDecode_NoTruncate(answer, length) == Reverse(answer)

\* tdo = tdo[:length]; tdo.reverse()
TmsDecode(answer, length) == Reverse(Slice(answer, 0, length))

\* (mutant) a length of 8 passes the check
TmsLengthOk_UpTo8(length) == 0 < length /\ length <= 8

\* the length check of write_tms_tdi_read_tdo
TmsLengthOk(length) == 0 < length /\ length < 8

\* write_tms_tdi_read_tdo(tms, tdi)
write_tms_tdi_read_tdo(acc, tms, tdi, e) ==
    LET length == Len(tms)
    IN  IF ~TmsLengthOk(length) THEN Raise(acc)
        ELSE LET byte == TmsPayload(tms, tdi)
                 clocks == MpsseTmsClocks(byte, length, Len(acc.clocks), e.tgt)
             IN  RoundTrip(acc, Cmd("RW_BITS_TMS_PVE_NVE", length - 1, 1), <<byte>>, 1,
                           clocks, TmsDecode(MpsseTmsAnswer(clocks), length),
                           clocks[length].tms, e)

\* (mutant) the whole answer byte is returned
BitsDecode_WholeByte(answer, length) == answer

\* tdo = tdo[8-length:]
BitsDecode(answer, length) == Slice(answer, 8 - length, 8)

\* _write_read_bits(out)
write_read_bits(acc, out, e) ==
    LET length == Len(out)
    IN  IF ~(0 < length /\ length <= 8) THEN Raise(acc)
        ELSE LET byte == out \o Zeros(8 - length)
                 clocks == MpsseBitsClocks(byte, length, acc.line, Len(acc.clocks), e.tgt)
             IN  RoundTrip(acc, Cmd("RW_BITS_PVE_NVE_MSB", length - 1, 1), <<byte>>, 1,
                           clocks, BitsDecode(MpsseBitsAnswer(clocks), length), acc.line, e)

\* _write_read_bytes(out)
write_read_bytes(acc, out, e) ==
    LET olen == Len(out) \div 8
    IN  IF olen > FTDI_RD_BUFFER_MAX_LEN(e.ff) \/ olen > FTDI_WR_BUFFER_MAX_LEN(e.ff)
        THEN Raise(acc)
        ELSE LET clocks == MpsseBytesClocks(out, acc.line, Len(acc.clocks), e.tgt)
             IN  RoundTrip(acc, Cmd("RW_BYTES_PVE_NVE_MSB", olen - 1, olen),
                           [k \in 1..olen |-> Slice(out, 8 * (k - 1), 8 * k)], olen,
                           clocks, MpsseBytesAnswer(clocks), acc.line, e)

\* (mutant) the byte count is divided by eight instead of multiplied
max_rw_bits_Divided(ff) == Min(max_byte_sizes(ff)[2], max_byte_sizes(ff)[3]) \div 8

\* (mutant) the chunk is sized by the write buffer alone
max_rw_bits_WriteOnly(ff) == max_byte_sizes(ff)[2] * 8

\* max_rw_bits = min(self.max_byte_sizes[1:3])*8
max_rw_bits(ff) == Min(max_byte_sizes(ff)[2], max_byte_sizes(ff)[3]) * 8

\* the byte loop of write_tdi_read_tdo: while (head < pos)
RECURSIVE ByteChunks(_, _, _, _, _)
ByteChunks(acc, out, head, pos, e) ==
    IF ~(head < pos) \/ ~acc.ok THEN acc
    ELSE LET tail == Min(head + max_rw_bits(e.ff), pos)
         IN  ByteChunks(write_read_bytes(acc, Slice(out, head, tail), e), out, tail, pos, e)

\* write_tdi_read_tdo(out)
write_tdi_read_tdo(acc, out, e) ==
    LET byte_count == Len(out) \div 8
        pos == 8 * byte_count
        bit_count == Len(out) - pos
        bytes == IF byte_count # 0 THEN ByteChunks(acc, out, 0, pos, e) ELSE acc
    IN  IF bit_count # 0 /\ bytes.ok THEN write_read_bits(bytes, Slice(out, pos, Len(out)), e)
        ELSE bytes

---------------------------------------------------------------------------
(* The shift engine: PyFTDIAdapter.send_data (adapters/pyftdi.py).         *)

\* (mutant) the search result is dropped: the next '1' is taken to be at head
Tms1Pos_AtCursor(tms, head) == head

\* tms1Pos: the position of the next TMS '1', or the end
Tms1Pos(tms, head) ==
    IF Find(tms, 1, head) # -1 THEN Find(tms, 1, head) ELSE Len(tms)

\* (mutant) off by one: a single TMS '0' bit is not sent
HasZeroSegment_OffByOne(tms1Pos, head) == tms1Pos > head + 1

\* if (tms1Pos > head): there are TDI bits to send with TMS at '0'
HasZeroSegment(tms1Pos, head) == tms1Pos > head

\* tms0Pos: one past the position of the next TMS '0', or the end
Tms0Pos(tms, head) ==
    IF Find(tms, 0, head) # -1 THEN Find(tms, 0, head) + 1 ELSE Len(tms)

\* (mutant) segments of up to 8 bits
BurstTail_Eight(tms0Pos, head) == Min(tms0Pos, head + 8)

\* tail = min(tms0Pos,head+7)
BurstTail(tms0Pos, head) == Min(tms0Pos, head + 7)

\* (mutant) the first TDI bit of the segment is held instead of the last
HeldTdi_First(tdi, head, tail) == At(tdi, head)

\* the TDI level passed with a TMS segment: tdi_stream[tail-1]
HeldTdi(tdi, head, tail) == At(tdi, tail - 1)

\* the check of the assumption that TDI is constant where TMS is sent
TdiNotConstant(tdi, head, tail) ==
    /\ Slice(tdi, head, tail) # Zeros(tail - head)
    /\ Slice(tdi, head, tail) # Ones(tail - head)

\* (mutant) the failed TDI check raises instead of printing
Warn_Raises(acc, tdi, head, tail, e) ==
    IF e.verbosity_level >= 1 /\ TdiNotConstant(tdi, head, tail) THEN Raise(acc) ELSE acc

\* the warning is printed at verbosity_level >= 1 only
Warn(acc, tdi, head, tail, e) ==
    [acc EXCEPT !.warned = @ \/ (e.verbosity_level >= 1 /\ TdiNotConstant(tdi, head, tail))]

\* a sub-call is entered: op "tdi" is write_tdi_read_tdo(tdi[head:tail]),
\* op "tms" is write_tms_tdi_read_tdo(tms[head:tail], held)
Call(acc, op, head, tail, held) ==
    [acc EXCEPT !.calls = Append(@, [op |-> op, head |-> head, tail |-> tail, held |-> held])]

\* while (tms0Pos > head)
RECURSIVE TmsSegments(_, _, _, _, _)
TmsSegments(acc, tms, tdi, tms0Pos, e) ==
    IF ~(tms0Pos > acc.head) \/ ~acc.ok THEN acc
    ELSE LET head == acc.head
             tail == BurstTail(tms0Pos, head)
             held == HeldTdi(tdi, head, tail)
             sent == write_tms_tdi_read_tdo(
                         Call(Warn(acc, tdi, head, tail, e), "tms", head, tail, held),
                         Slice(tms, head, tail), held, e)
         IN  TmsSegments([sent EXCEPT !.head = tail], tms, tdi, tms0Pos, e)

\* while (head < len(tms_stream))
RECURSIVE SendDataLoop(_, _, _, _)
SendDataLoop(acc, tms, tdi, e) ==
    IF ~(acc.head < Len(tms)) \/ ~acc.ok THEN acc
    ELSE LET tms1Pos == Tms1Pos(tms, acc.head)
             zeros == IF HasZeroSegment(tms1Pos, acc.head)
                      THEN write_tdi_read_tdo(Call(acc, "tdi", acc.head, tms1Pos, X),
                                              Slice(tdi, acc.head, tms1Pos), e)
                      ELSE acc
             at1 == [zeros EXCEPT !.head = tms1Pos]
         IN  IF at1.head >= Len(tms) \/ ~at1.ok THEN at1
             ELSE SendDataLoop(TmsSegments(at1, tms, tdi, Tms0Pos(tms, at1.head), e),
                               tms, tdi, e)

\* send_data(tms_stream, tdi_stream), entered with the TMS pin at level line
send_data(tms, tdi, line, e) == SendDataLoop(Fresh(line), tms, tdi, e)

---------------------------------------------------------------------------
(* The shift engine on its own: every pair of vectors up to MaxBits bits,  *)
(* with the TMS pin at either level on entry (it is high after a shift     *)
(* that ended on a TMS '1').                                               *)

\* TDI vectors that tell neighbouring positions apart
TdiPatterns(n) ==
    {Zeros(n), Ones(n), [i \in 1..n |-> i % 2], [i \in 1..n |-> (i + 1) % 2]}

EngineTdi(n) == IF n <= MaxFullTdi THEN BitVectors(n) ELSE TdiPatterns(n)

\* no byte has been sent on the connection
NoSock == [rx |-> <<>>, used |-> 0, script |-> <<>>, done |-> <<>>]

\* the device after configure: open, opened once, reporting FIFO sizes ff
DeviceInUse(ff) ==
    [opened |-> TRUE, opens |-> 1, fifo_sizes |-> ff, calls |-> <<>>, raised |-> FALSE]

\* no connection is queued and handle() has not been entered for any
NoNet == [backlog |-> <<>>, client |-> 0, late |-> {}, nconn |-> 0]

InitEngine ==
    /\ net = NoNet
    /\ sock = NoSock
    /\ verbose \in {0, 1}
    /\ adapter = "mpsse"
    /\ fifo = <<4, 3>>
    /\ device = DeviceInUse(fifo)
    /\ has_client_connected = FALSE
    /\ pc = "engine_call"
    /\ tap_state = "TEST_LOGIC_RESET"
    /\ tms_line \in BIT
    /\ target = "tag"
    /\ cmd = [kind |-> "none"]
    /\ reply = <<>>
    /\ \E n \in 0..MaxBits :
          /\ tms_stream \in BitVectors(n)
          /\ tdi_stream \in EngineTdi(n)
    /\ engine = Fresh(tms_line)

EngineSendData ==
    /\ pc = "engine_call"
    /\ engine' = send_data(tms_stream, tdi_stream, tms_line, Env(fifo, target, 0, verbose))
    /\ tms_line' = engine'.line
    /\ pc' = "engine_done"
    /\ UNCHANGED <<sock, device, net, verbose, adapter, fifo, has_client_connected, tap_state, target,
                   cmd, reply, tms_stream, tdi_stream>>

NextEngine == EngineSendData

SpecEngine == InitEngine /\ [][NextEngine]_vars

---------------------------------------------------------------------------
(* send_data on a vector that shifts five data bits and then leaves the    *)
(* shift state with five TMS=1 clocks.                                     *)

\* TMS is 0 at indices 0..4 and 1 at indices 5..9
MixedTms == Zeros(5) \o Ones(5)

MixedFifoSizes == {<<4, 3>>, <<2048, 2048>>}

InitMixed ==
    /\ net = NoNet
    /\ sock = NoSock
    /\ verbose \in {0, 1}
    /\ adapter = "mpsse"
    /\ fifo \in MixedFifoSizes
    /\ device = DeviceInUse(fifo)
    /\ has_client_connected = FALSE
    /\ pc = "engine_call"
    /\ tap_state = "TEST_LOGIC_RESET"
    /\ tms_line \in BIT
    /\ target = "tag"
    /\ cmd = [kind |-> "none"]
    /\ reply = <<>>
    /\ tms_stream = MixedTms
    /\ tdi_stream \in BitVectors(Len(MixedTms))
    /\ engine = Fresh(tms_line)

SpecMixed == InitMixed /\ [][NextEngine]_vars

---------------------------------------------------------------------------
(* send_data on vectors that take a shift through byte chunks, a bit chunk *)
(* and TMS bursts in one call.                                             *)

\* zeros, then ones, then zeros
DecodeTms ==
    {Zeros(a) \o Ones(b) \o Zeros(c) : a \in {0, 9, 17}, b \in 0..8, c \in {0, 1, 3}}

InitDecode ==
    /\ net = NoNet
    /\ sock = NoSock
    /\ verbose = 0
    /\ adapter = "mpsse"
    /\ fifo \in {<<4, 3>>, <<5, 4>>}
    /\ device = DeviceInUse(fifo)
    /\ has_client_connected = FALSE
    /\ pc = "engine_call"
    /\ tap_state = "TEST_LOGIC_RESET"
    /\ tms_line \in BIT
    /\ target \in Targets
    /\ cmd = [kind |-> "none"]
    /\ reply = <<>>
    /\ tms_stream \in DecodeTms
    /\ tdi_stream \in TdiPatterns(Len(tms_stream))
    /\ engine = Fresh(tms_line)

SpecDecode == InitDecode /\ [][NextEngine]_vars

---------------------------------------------------------------------------
(* The TAP tracker of the adapters' base class (adapters.jtag: track_tms,  *)
(* get_state), which follows the IEEE 1149.1 state diagram.                *)

TapStates ==
    {"TEST_LOGIC_RESET", "RUN_TEST_IDLE", "SELECT_DR", "CAPTURE_DR", "SHIFT_DR",
     "EXIT_1_DR", "PAUSE_DR", "EXIT_2_DR", "UPDATE_DR", "SELECT_IR", "CAPTURE_IR",
     "SHIFT_IR", "EXIT_1_IR", "PAUSE_IR", "EXIT_2_IR", "UPDATE_IR"}

TapNext(state, tms) ==
    CASE state = "TEST_LOGIC_RESET" -> IF tms = 1 THEN "TEST_LOGIC_RESET" ELSE "RUN_TEST_IDLE"
      [] state = "RUN_TEST_IDLE" -> IF tms = 1 THEN "SELECT_DR" ELSE "RUN_TEST_IDLE"
      [] state = "SELECT_DR" -> IF tms = 1 THEN "SELECT_IR" ELSE "CAPTURE_DR"
      [] state = "CAPTURE_DR" -> IF tms = 1 THEN "EXIT_1_DR" ELSE "SHIFT_DR"
      [] state = "SHIFT_DR" -> IF tms = 1 THEN "EXIT_1_DR" ELSE "SHIFT_DR"
      [] state = "EXIT_1_DR" -> IF tms = 1 THEN "UPDATE_DR" ELSE "PAUSE_DR"
      [] state = "PAUSE_DR" -> IF tms = 1 THEN "EXIT_2_DR" ELSE "PAUSE_DR"
      [] state = "EXIT_2_DR" -> IF tms = 1 THEN "UPDATE_DR" ELSE "SHIFT_DR"
      [] state = "UPDATE_DR" -> IF tms = 1 THEN "SELECT_DR" ELSE "RUN_TEST_IDLE"
      [] state = "SELECT_IR" -> IF tms = 1 THEN "TEST_LOGIC_RESET" ELSE "CAPTURE_IR"
      [] state = "CAPTURE_IR" -> IF tms = 1 THEN "EXIT_1_IR" ELSE "SHIFT_IR"
      [] state = "SHIFT_IR" -> IF tms = 1 THEN "EXIT_1_IR" ELSE "SHIFT_IR"
      [] state = "EXIT_1_IR" -> IF tms = 1 THEN "UPDATE_IR" ELSE "PAUSE_IR"
      [] state = "PAUSE_IR" -> IF tms = 1 THEN "EXIT_2_IR" ELSE "PAUSE_IR"
      [] state = "EXIT_2_IR" -> IF tms = 1 THEN "UPDATE_IR" ELSE "SHIFT_IR"
      [] OTHER -> IF tms = 1 THEN "SELECT_DR" ELSE "RUN_TEST_IDLE"

\* the tracker after the TMS bits of a vector, first bit first
RECURSIVE TapTrack(_, _)
TapTrack(state, tms) ==
    IF tms = <<>> THEN state ELSE TapTrack(TapNext(state, Head(tms)), Tail(tms))

---------------------------------------------------------------------------
(* The bit-bang adapters: PyFTDIGPIOAdapter.send_data and                  *)
(* FTDIAdapter.send_data clock one bit per tick and track every TMS bit.   *)

\* raised: the first tick raises (the USB device does not answer)
gpio_send_data(tms, tdi, e) ==
    IF e.shortAt # 0 /\ Len(tms) > 0 THEN Raise(Fresh(0))
    ELSE LET clocks == [k \in 1..Min(Len(tms), Len(tdi)) |->
                            Clock(tms[k], tdi[k], e.tgt, k - 1)]
         IN  [Fresh(0) EXCEPT !.clocks = clocks,
                              !.tdo = [k \in 1..Len(clocks) |-> clocks[k].tdo],
                              !.head = Len(clocks),
                              !.line = IF clocks = <<>> THEN 0 ELSE clocks[Len(clocks)].tms]

\* max_byte_sizes of the bit-bang adapter
gpio_max_byte_sizes == <<2048, 2048, 2048>>

\* The MPSSE adapter hands out the max_byte_sizes of its JtagController.
mpsse_max_byte_sizes(ff) == max_byte_sizes(ff)

AdapterMaxByteSizes(a, ff) ==
    IF a = "mpsse" THEN mpsse_max_byte_sizes(ff) ELSE gpio_max_byte_sizes

\* jtag.send_data of the adapter in use, and the tracker state afterwards:
\* PyFTDIAdapter.send_data does not call track_tms
AdapterSendData(a, tms, tdi, line, e) ==
    IF a = "mpsse" THEN send_data(tms, tdi, line, e) ELSE gpio_send_data(tms, tdi, e)

\* (mutant) the tracker follows the sampled TDO bits
AdapterTrack_Tdo(a, state, tms, result) ==
    IF a = "mpsse" THEN state
    ELSE IF result.ok THEN TapTrack(state, result.tdo) ELSE state

AdapterTrack(a, state, tms, result) ==
    IF a = "mpsse" THEN state
    ELSE IF result.ok THEN TapTrack(state, tms) ELSE state

\* set_tck_period(period) of PyFTDIAdapter and PyFTDIGPIOAdapter: int(10e6)
set_tck_period(period) == 10000000

---------------------------------------------------------------------------
(* The XVC wire format (xvcd_server.py).                                   *)

BitsOfByte_LsbFirst(b) == [j \in 1..8 |-> (b \div (2 ^ (j - 1))) % 2]

\* the bits of a byte as bitstring holds them, most significant first
BitsOfByte(b) == [j \in 1..8 |-> (b \div (2 ^ (8 - j))) % 2]

\* bitstring.BitStream(bytes=byteVect, length=len(byteVect)*8)
BitStreamOfBytes(byteVect) ==
    [i \in 1..(8 * Len(byteVect)) |-> BitsOfByte(byteVect[((i - 1) \div 8) + 1])[((i - 1) % 8) + 1]]

\* BitStream.byteswap(): the order of the bytes is reversed
ByteSwap(bits) ==
    LET n == Len(bits) \div 8
    IN  [i \in 1..Len(bits) |-> bits[8 * (n - 1 - ((i - 1) \div 8)) + ((i - 1) % 8) + 1]]

byteVectToBitStream_NoSwap(byteVect, bitLen) ==
    Slice(Reverse(BitStreamOfBytes(byteVect)), 0, bitLen)

\* byteVectToBitStream(byteVect, bitLen)
byteVectToBitStream(byteVect, bitLen) ==
    Slice(Reverse(ByteSwap(BitStreamOfBytes(byteVect))), 0, bitLen)

\* BitStream.bytes of a whole number of bytes
BytesOf(bits) == [k \in 1..(Len(bits) \div 8) |-> Uint(Slice(bits, 8 * (k - 1), 8 * k))]

PackTdo_PadFirst(tdo) == BytesOf(ByteSwap(Reverse(Zeros((8 - Len(tdo)) % 8) \o tdo)))

\* TDO += BitStream((8 - TDO.len) % 8); TDO.reverse(); TDO.byteswap(); TDO.bytes
PackTdo(tdo) == BytesOf(ByteSwap(Reverse(tdo \o Zeros((8 - Len(tdo)) % 8))))

\* What a client puts on the wire for a bit vector (xvcShift of the test
\* client): bit i goes to bit i mod 8 of byte i div 8; pad fills the rest of
\* the last byte (the test client pads with 0).
ClientPack(bits, pad) ==
    LET padded == bits \o [i \in 1..((8 - Len(bits)) % 8) |-> pad]
    IN  [k \in 1..(Len(padded) \div 8) |->
            padded[8 * k - 7] + 2 * padded[8 * k - 6] + 4 * padded[8 * k - 5]
            + 8 * padded[8 * k - 4] + 16 * padded[8 * k - 3] + 32 * padded[8 * k - 2]
            + 64 * padded[8 * k - 1] + 128 * padded[8 * k]]

\* str(n).encode() for n >= 0: the ASCII decimal digits
RECURSIVE Decimal(_)
Decimal(n) == IF n < 10 THEN <<48 + n>> ELSE Decimal(n \div 10) \o <<48 + (n % 10)>>

\* "xvcServer_v"
XvcPrefix == <<120, 118, 99, 83, 101, 114, 118, 101, 114, 95, 118>>

\* "{:.1f}".format(XVC_VERSION), XVC_VERSION = 1.0
XvcVersionText == <<49, 46, 48>>

XvcVectorLen_NoDouble(m) == Min(m[1] + m[2], m[3])

\* the vector length reported by getinfo:
XvcVectorLen(m) == Min(m[1] + m[2], m[3] * 2)

\* XVC_INFO.encode()
XVC_INFO(m) == XvcPrefix \o XvcVersionText \o <<58>> \o Decimal(XvcVectorLen(m)) \o <<10>>

\* int.to_bytes(4, byteorder='little')
ToBytesLE4(n) == [k \in 1..4 |-> (n \div (256 ^ (k - 1))) % 256]

\* int.from_bytes(b, byteorder='little')
RECURSIVE FromBytesLE(_)
FromBytesLE(b) == IF b = <<>> THEN 0 ELSE b[1] + 256 * FromBytesLE(Tail(b))

IsePattern_Mirror == <<1, 0, 1, 1, 1>>

\* TMS == bitstring.BitStream('0b11101'): index 0 is the left-most bit
IsePattern == <<1, 1, 1, 0, 1>>

---------------------------------------------------------------------------
(* The server: socketserver.TCPServer with xvcd_server.handle.             *)
(*                                                                         *)
(* pc = "listening"  serve_forever waits for a connection                  *)
(* pc = "loop"       handle() is at the top of its while loop, in sread(2) *)
(* pc = "continue"   one command was handled and the loop goes round       *)

\* (write FIFO, read FIFO) of the FTDI device opened by configure
FifoSizes == {<<2048, 2048>>, <<128, 384>>, <<384, 128>>}

\* TCK periods a client asks for, in ns
Periods == {40, 1000}

\* the ways a command is cut short or malformed: each ends in break
AbortReasons ==
    {"closed", "bad_snippet", "bad_getinfo", "bad_settck", "bad_shift",
     "closed_in_num_bits", "closed_in_vectors"}

ShiftLengths == 0..MaxLongBits

\* five-bit TMS vectors of interest at Exit1-IR: '0b11101' and its mirror image
IseVectors == {IsePattern, Reverse(IsePattern)}

ShiftTms(n) ==
    IF n <= MaxShiftBits THEN BitVectors(n)
    ELSE {Zeros(n), Ones(n)} \cup {v \in IseVectors : Len(v) = n}

ShiftTdi(n) == {Zeros(n), [i \in 1..n |-> i % 2]}

NoCmd == [kind |-> "none"]

Init ==
    /\ net = NoNet
    /\ sock = NoSock
    /\ verbose \in 0..4
    /\ adapter \in {"mpsse", "gpio"}
    /\ fifo \in (IF adapter = "mpsse" THEN FifoSizes ELSE {<<0, 0>>})
    /\ device = DeviceInUse(fifo)
    /\ has_client_connected = FALSE
    /\ pc = "listening"
    /\ tap_state = "TEST_LOGIC_RESET"
    /\ tms_line = 0
    /\ target \in {"ones", "loopback"}
    /\ cmd = NoCmd
    /\ reply = <<>>
    /\ tms_stream = <<>>
    /\ tdi_stream = <<>>
    /\ engine = Fresh(0)

\* handle() is entered for a new connection while no client is connected
Accept ==
    /\ pc = "listening"
    /\ ~has_client_connected
    /\ has_client_connected' = TRUE
    /\ pc' = "loop"
    /\ cmd' = NoCmd
    /\ reply' = <<>>
    /\ tms_stream' = <<>>
    /\ tdi_stream' = <<>>
    /\ engine' = Fresh(tms_line)
    /\ UNCHANGED <<sock, device, net, verbose, adapter, fifo, tap_state, tms_line, target>>

\* handle() is entered while has_client_connected is set: it returns at once
Reject ==
    /\ pc = "listening"
    /\ has_client_connected
    /\ cmd' = [kind |-> "rejected"]
    /\ reply' = <<>>
    /\ UNCHANGED <<sock, device, net, verbose, adapter, fifo, has_client_connected, pc, tap_state,
                   tms_line, target, tms_stream, tdi_stream, engine>>

\* the payloads sent for a well-formed getinfo:
GetInfoReply(v, m) == IF v >= 1 THEN <<XVC_INFO(m)>> ELSE <<>>

\* 'ge' + 'tinfo:'
CmdGetInfo ==
    /\ pc = "loop"
    /\ reply' = GetInfoReply(verbose, AdapterMaxByteSizes(adapter, fifo))
    /\ cmd' = [kind |-> "getinfo"]
    /\ pc' = "continue"
    /\ UNCHANGED <<sock, device, net, verbose, adapter, fifo, has_client_connected, tap_state, tms_line,
                   target, tms_stream, tdi_stream, engine>>

\* 'se' + 'ttck:' + <set period>
CmdSetTck ==
    /\ pc = "loop"
    /\ \E period \in Periods :
          LET set_period == FromBytesLE(ToBytesLE4(period))
              current_period == set_tck_period(set_period)
          IN  /\ reply' = <<ToBytesLE4(current_period)>>
              /\ cmd' = [kind |-> "settck", set_period |-> set_period]
    /\ pc' = "continue"
    /\ UNCHANGED <<sock, device, net, verbose, adapter, fifo, has_client_connected, tap_state, tms_line,
                   target, tms_stream, tdi_stream, engine>>

CmdAbort_FlagKept ==
    /\ pc = "loop"
    /\ \E why \in AbortReasons : cmd' = [kind |-> "invalid", why |-> why]
    /\ reply' = <<>>
    /\ pc' = "listening"
    /\ UNCHANGED <<sock, device, net, verbose, adapter, fifo, has_client_connected, tap_state, tms_line,
                   target, tms_stream, tdi_stream, engine>>

\* an unknown snippet, a wrong command tail or a failed read: break, then
\* self.finish() and has_client_connected = False
CmdAbort ==
    /\ pc = "loop"
    /\ \E why \in AbortReasons : cmd' = [kind |-> "invalid", why |-> why]
    /\ reply' = <<>>
    /\ has_client_connected' = FALSE
    /\ pc' = "listening"
    /\ UNCHANGED <<sock, device, net, verbose, adapter, fifo, tap_state, tms_line, target,
                   tms_stream, tdi_stream, engine>>

\* What the handler does with 'sh' + 'ift:' + <num bits> + <tms> + <tdi>, all
\* bytes received; shortAt is the USB read that fails during the shift.
\* outcome: "aborted"     sread(numBytes * 2) returned b'': break
\*          "intercepted" the fix for the Xilinx ISE bug: b'\x1f', continue
\*          "raised"      send_data raised: handle() is left by the exception
\*          "replied"     TDO.bytes sent
HandleShiftOn(numBitsArg, vectArg, shortAt, tgt) ==
    LET numBits == FromBytesLE(numBitsArg)
        numBytes == (numBits + 7) \div 8
        base == [numBits |-> numBits, TMS |-> <<>>, TDI |-> <<>>, sent |-> <<>>,
                 ran |-> Fresh(tms_line), called |-> FALSE, tap |-> tap_state]
        Sent(TMS, TDI, ran) ==
            IF ~ran.ok
            THEN [base EXCEPT !.TMS = TMS, !.TDI = TDI, !.ran = ran, !.called = TRUE]
                 @@ [outcome |-> "raised"]
            ELSE [base EXCEPT !.TMS = TMS, !.TDI = TDI, !.ran = ran, !.called = TRUE,
                              !.sent = <<PackTdo(ran.tdo)>>,
                              !.tap = AdapterTrack(adapter, tap_state, TMS, ran)]
                 @@ [outcome |-> "replied"]
        Shift(TMS, TDI) ==
            IF tap_state = "EXIT_1_IR" /\ TMS = IsePattern
            THEN [base EXCEPT !.TMS = TMS, !.TDI = TDI, !.sent = <<<<31>>>>]
                 @@ [outcome |-> "intercepted"]
            ELSE Sent(TMS, TDI, AdapterSendData(adapter, TMS, TDI, tms_line,
                                                Env(fifo, tgt, shortAt, verbose)))
    IN  IF vectArg = <<>> THEN base @@ [outcome |-> "aborted"]
        ELSE Shift(byteVectToBitStream(Slice(vectArg, 0, numBytes), numBits),
                   byteVectToBitStream(Slice(vectArg, numBytes, 2 * numBytes), numBits))

\* the shift: branch on the target that is attached
HandleShift(numBitsArg, vectArg, shortAt) ==
    HandleShiftOn(numBitsArg, vectArg, shortAt, target)

\* the shift: branch of the handler, but for what it does to the device
ShiftCommand ==
    /\ pc = "loop"
    /\ \E n \in ShiftLengths, pad \in BIT, shortAt \in {0, 1} :
       \E tms \in ShiftTms(n), tdi \in ShiftTdi(n) :
       \E tmsBytes \in {ClientPack(tms, pad)}, tdiBytes \in {ClientPack(tdi, pad)} :
       \E h \in {HandleShift(ToBytesLE4(n), tmsBytes \o tdiBytes, shortAt)} :
          /\ cmd' = [kind |-> "shift", numBits |-> h.numBits, tmsBytes |-> tmsBytes,
                     tdiBytes |-> tdiBytes, outcome |-> h.outcome, called |-> h.called,
                     tap |-> tap_state]
          /\ reply' = h.sent
          /\ tms_stream' = h.TMS
          /\ tdi_stream' = h.TDI
          /\ engine' = h.ran
          /\ tap_state' = h.tap
          /\ tms_line' = IF adapter = "mpsse" THEN h.ran.line ELSE tms_line
          /\ pc' = CASE h.outcome = "aborted" -> "listening"
                     [] h.outcome = "raised" -> "listening"
                     [] OTHER -> "continue"
          /\ has_client_connected' = (h.outcome # "aborted")
    /\ UNCHANGED <<sock, net, verbose, adapter, fifo, target>>

CmdShift ==
    /\ ShiftCommand
    /\ UNCHANGED device

\* the loop goes round: the next sread(2)
Continue ==
    /\ pc = "continue"
    /\ pc' = "loop"
    /\ cmd' = NoCmd
    /\ reply' = <<>>
    /\ tms_stream' = <<>>
    /\ tdi_stream' = <<>>
    /\ engine' = Fresh(tms_line)
    /\ UNCHANGED <<sock, device, net, verbose, adapter, fifo, has_client_connected, tap_state, tms_line, target>>

Next ==
    \/ Accept
    \/ Reject
    \/ CmdGetInfo
    \/ CmdSetTck
    \/ CmdAbort
    \/ CmdShift
    \/ Continue

Spec == Init /\ [][Next]_vars

---------------------------------------------------------------------------
(* The listening socket: connections arrive at any time and wait in the    *)
(* listen queue until serve_forever hands them to handle(); SIGINT may     *)
(* arrive at any time.                                                     *)
(*                                                                         *)
(* pc = "exited"  the process has left through sys.exit(0)                 *)

\* clients that connect during one run of the server
MaxClients == 2

Clients == 1..MaxClients

ServerIdle_Threaded == TRUE

\* socketserver.TCPServer is not threaded: serve_forever enters handle() for
\* the next connection only after the previous handle() has returned
ServerIdle == pc = "listening"

\* a session is in the command loop
SessionActive == pc \in {"loop", "continue"}

InitListener ==
    /\ net = NoNet
    /\ sock = NoSock
    /\ verbose \in {0, 1}
    /\ adapter = "mpsse"
    /\ fifo = <<128, 384>>
    /\ device = DeviceInUse(fifo)
    /\ has_client_connected = FALSE
    /\ pc = "listening"
    /\ tap_state = "TEST_LOGIC_RESET"
    /\ tms_line = 0
    /\ target = "loopback"
    /\ cmd = NoCmd
    /\ reply = <<>>
    /\ tms_stream = <<>>
    /\ tdi_stream = <<>>
    /\ engine = Fresh(0)

\* a client connects: the kernel completes the connection and queues it
Connect ==
    /\ pc # "exited"
    /\ net.nconn < MaxClients
    /\ net' = [net EXCEPT !.nconn = @ + 1,
                          !.backlog = Append(@, net.nconn + 1),
                          !.late = IF SessionActive THEN @ \cup {net.nconn + 1} ELSE @]
    /\ UNCHANGED <<sock, device, verbose, adapter, fifo, has_client_connected, pc, tap_state, tms_line,
                   target, cmd, reply, tms_stream, tdi_stream, engine>>

\* handle() is entered for the first queued connection, no client connected
AcceptQueued ==
    /\ ServerIdle
    /\ net.backlog # <<>>
    /\ ~has_client_connected
    /\ net' = [net EXCEPT !.backlog = Tail(@), !.client = Head(net.backlog)]
    /\ has_client_connected' = TRUE
    /\ pc' = "loop"
    /\ cmd' = NoCmd
    /\ reply' = <<>>
    /\ tms_stream' = <<>>
    /\ tdi_stream' = <<>>
    /\ engine' = Fresh(tms_line)
    /\ UNCHANGED <<sock, device, verbose, adapter, fifo, tap_state, tms_line, target>>

\* handle() is entered for the first queued connection while
\* has_client_connected is set: it returns and the connection is closed
RejectQueued ==
    /\ ServerIdle
    /\ net.backlog # <<>>
    /\ has_client_connected
    /\ net' = [net EXCEPT !.backlog = Tail(@)]
    /\ cmd' = [kind |-> "rejected", client |-> Head(net.backlog)]
    /\ reply' = <<>>
    /\ UNCHANGED <<sock, device, verbose, adapter, fifo, has_client_connected, pc, tap_state,
                   tms_line, target, tms_stream, tdi_stream, engine>>

\* SIGINT raises KeyboardInterrupt in the main thread:
\*   in serve_forever   the except clause of __main__: sys.exit(0)
\*   in recv() of sread the bare except of sread: b'' is returned, the
\*                      handler breaks, finishes and clears the flag
\*   later in the loop  (send_data, sendall) the except KeyboardInterrupt of
\*                      handle(): pass, then finish and clear the flag;
\*                      send_data stops part-way, the TMS pin is at either level
Sigint ==
    \/ /\ pc = "listening"
       /\ pc' = "exited"
       /\ cmd' = [kind |-> "sigint", at |-> "accept"]
       /\ reply' = <<>>
       /\ UNCHANGED <<sock, device, net, verbose, adapter, fifo, has_client_connected, tap_state,
                      tms_line, target, tms_stream, tdi_stream, engine>>
    \/ /\ pc = "loop"
       /\ pc' = "listening"
       /\ has_client_connected' = FALSE
       /\ reply' = <<>>
       /\ \E at \in {"read", "shift"} :
             /\ cmd' = [kind |-> "sigint", at |-> at]
             /\ tms_line' \in (IF at = "shift" THEN BIT ELSE {tms_line})
       /\ UNCHANGED <<sock, device, net, verbose, adapter, fifo, tap_state, target,
                      tms_stream, tdi_stream, engine>>

NextListener ==
    \/ Connect
    \/ AcceptQueued
    \/ RejectQueued
    \/ CmdGetInfo
    \/ CmdSetTck
    \/ CmdAbort
    \/ CmdShift
    \/ Continue
    \/ Sigint

SpecListener == InitListener /\ [][NextListener]_vars

---------------------------------------------------------------------------
(* The wire conversions on their own: byteVectToBitStream on a byte vector *)
(* and the handler's TDO packing applied to the result.                    *)

\* longest byte vector converted
MaxWireBytes == 2

\* byte values tried in vectors of more than one byte
SampleBytes == {0, 1, 23, 29, 128, 165, 255}

WireVectors(L) == IF L <= 1 THEN [1..L -> 0..255] ELSE [1..L -> SampleBytes]

WireInputs ==
    UNION {{[kind |-> "wire", bytes |-> b, bitLen |-> n] :
               b \in WireVectors(L), n \in 0..(8 * L)} : L \in 0..MaxWireBytes}

InitWire ==
    /\ net = NoNet
    /\ sock = NoSock
    /\ verbose = 0
    /\ adapter = "mpsse"
    /\ fifo = <<2048, 2048>>
    /\ device = DeviceInUse(fifo)
    /\ has_client_connected = FALSE
    /\ pc = "wire_call"
    /\ tap_state = "TEST_LOGIC_RESET"
    /\ tms_line = 0
    /\ target = "loopback"
    /\ cmd \in WireInputs
    /\ reply = <<>>
    /\ tms_stream = <<>>
    /\ tdi_stream = <<>>
    /\ engine = Fresh(0)

\* TMS = byteVectToBitStream(bytes, bitLen), then the TDO packing on it
WireConvert ==
    /\ pc = "wire_call"
    /\ tms_stream' = byteVectToBitStream(cmd.bytes, cmd.bitLen)
    /\ reply' = <<PackTdo(tms_stream')>>
    /\ pc' = "wire_done"
    /\ UNCHANGED <<sock, device, net, verbose, adapter, fifo, has_client_connected, tap_state, tms_line,
                   target, cmd, tdi_stream, engine>>

NextWire == WireConvert

SpecWire == InitWire /\ [][NextWire]_vars

---------------------------------------------------------------------------
(* A session of shift commands only, on either adapter.                    *)

InitTrack ==
    /\ net = NoNet
    /\ sock = NoSock
    /\ verbose = 0
    /\ adapter \in {"mpsse", "gpio"}
    /\ fifo = (IF adapter = "mpsse" THEN <<128, 384>> ELSE <<0, 0>>)
    /\ device = DeviceInUse(fifo)
    /\ has_client_connected = TRUE
    /\ pc = "loop"
    /\ tap_state = "TEST_LOGIC_RESET"
    /\ tms_line = 0
    /\ target \in {"ones", "loopback"}
    /\ cmd = NoCmd
    /\ reply = <<>>
    /\ tms_stream = <<>>
    /\ tdi_stream = <<>>
    /\ engine = Fresh(0)

NextTrack ==
    \/ CmdShift
    \/ Continue

SpecTrack == InitTrack /\ [][NextTrack]_vars

---------------------------------------------------------------------------
(* Shift-only sessions with the target's TAP controller attached:          *)
(* device.tap is the state of the TAP in the target, which moves on every  *)
(* TCK clock the adapter produces, by the TMS level of that clock.         *)

\* the target's TAP after the clocks of one send_data
TargetTap(tap, clocks) == TapTrack(tap, [k \in 1..Len(clocks) |-> clocks[k].tms])

InitIse ==
    /\ net = NoNet
    /\ sock = NoSock
    /\ verbose = 0
    /\ adapter \in {"mpsse", "gpio"}
    /\ fifo = (IF adapter = "mpsse" THEN <<128, 384>> ELSE <<0, 0>>)
    /\ \E tap \in {"TEST_LOGIC_RESET", "RUN_TEST_IDLE"} : device = DeviceInUse(fifo) @@ [tap |-> tap]
    /\ has_client_connected = TRUE
    /\ pc = "loop"
    /\ tap_state = "TEST_LOGIC_RESET"
    /\ tms_line = 0
    /\ target = "loopback"
    /\ cmd = NoCmd
    /\ reply = <<>>
    /\ tms_stream = <<>>
    /\ tdi_stream = <<>>
    /\ engine = Fresh(0)

\* the shift: branch with the target following the clocks it is given
CmdShiftTarget ==
    /\ ShiftCommand
    /\ device' = [device EXCEPT !.tap = TargetTap(@, engine'.clocks)]

NextIse ==
    \/ CmdShiftTarget
    \/ Continue

SpecIse == InitIse /\ [][NextIse]_vars

---------------------------------------------------------------------------
(* The life cycle of the controller: __init__, configure, close, and the   *)
(* adapter's reset. device.opened is the controller's _ftdi_opened flag,   *)
(* device.calls the calls made on the FTDI library object, device.tap the  *)
(* state of the target's TAP, fifo the FIFO sizes the controller caches.   *)

\* calls of open_mpsse_from_url in one run
MaxOpens == 2

\* JtagController.__init__: not open, no FIFO sizes cached
DeviceClosed(ff, tap) ==
    [opened |-> FALSE, opens |-> 0, fifo_sizes |-> ff, calls |-> <<>>, raised |-> FALSE,
     tap |-> tap]

InitLifecycle ==
    /\ net = NoNet
    /\ sock = NoSock
    /\ verbose = 0
    /\ adapter = "mpsse"
    /\ fifo = <<0, 0>>
    /\ \E ff \in FifoSizes, tap \in TapStates : device = DeviceClosed(ff, tap)
    /\ has_client_connected = FALSE
    /\ pc = "lifecycle"
    /\ tap_state = "TEST_LOGIC_RESET"
    /\ tms_line = 0
    /\ target = "loopback"
    /\ cmd = NoCmd
    /\ reply = <<>>
    /\ tms_stream = <<>>
    /\ tdi_stream = <<>>
    /\ engine = Fresh(0)

\* configure(url): the device is opened without a look at _ftdi_opened. What
\* the library does with an open on an open device is its own affair: it
\* opens again, or it raises and configure is left at that line
ControllerConfigure ==
    /\ pc = "lifecycle"
    /\ device.opens < MaxOpens
    /\ \E outcome \in {"opened", "library_error"} :
          /\ cmd' = [kind |-> "configure", was_open |-> device.opened, outcome |-> outcome,
                     opens |-> device.opens, fifo |-> fifo]
          /\ IF outcome = "opened"
             THEN /\ device' = [device EXCEPT !.opened = TRUE, !.opens = @ + 1,
                                              !.raised = FALSE,
                                              !.calls = @ \o <<"open_mpsse_from_url",
                                                               "write_data">>]
                  /\ fifo' = device.fifo_sizes
             ELSE /\ device' = [device EXCEPT !.opens = @ + 1, !.raised = TRUE,
                                              !.calls = Append(@, "open_mpsse_from_url")]
                  /\ UNCHANGED fifo
    /\ UNCHANGED <<sock, net, verbose, adapter, has_client_connected, pc, tap_state,
                   tms_line, target, reply, tms_stream, tdi_stream, engine>>

\* (mutant) close() without the look at _ftdi_opened
ControllerClose_Unguarded ==
    /\ pc = "lifecycle"
    /\ cmd' = [kind |-> "close", was_open |-> device.opened, calls |-> device.calls]
    /\ device' = [device EXCEPT !.opened = FALSE, !.raised = ~device.opened,
                                !.calls = Append(@, "close")]
    /\ UNCHANGED <<sock, net, verbose, adapter, fifo, has_client_connected, pc, tap_state,
                   tms_line, target, reply, tms_stream, tdi_stream, engine>>

\* close(): the device is closed if _ftdi_opened says it is open
ControllerClose ==
    /\ pc = "lifecycle"
    /\ cmd' = [kind |-> "close", was_open |-> device.opened, calls |-> device.calls]
    /\ device' = IF device.opened
                 THEN [device EXCEPT !.opened = FALSE, !.raised = FALSE,
                                     !.calls = Append(@, "close")]
                 ELSE [device EXCEPT !.raised = FALSE]
    /\ UNCHANGED <<sock, net, verbose, adapter, fifo, has_client_connected, pc, tap_state,
                   tms_line, target, reply, tms_stream, tdi_stream, engine>>

\* PyFTDIAdapter.reset(): pass
AdapterReset ==
    /\ pc = "lifecycle"
    /\ device.opened
    /\ cmd' = [kind |-> "reset", tap |-> device.tap,
               resets |-> IF cmd.kind = "reset" THEN Min(cmd.resets + 1, 2) ELSE 1]
    /\ UNCHANGED <<sock, device, net, verbose, adapter, fifo, has_client_connected, pc,
                   tap_state, tms_line, target, reply, tms_stream, tdi_stream, engine>>

NextLifecycle ==
    \/ ControllerConfigure
    \/ ControllerClose
    \/ AdapterReset

SpecLifecycle == InitLifecycle /\ [][NextLifecycle]_vars

---------------------------------------------------------------------------
(* The controller's two operations called on their own, and the engine     *)
(* over a device whose USB reads may come back short.                      *)

\* bits of the longest vector handed to write_tdi_read_tdo
MaxCtlBits == 28

\* the USB round trip whose read comes back short (0: none)
MaxShortAt == 3

\* FIFO sizes with room for one payload byte at least
CtlFifoSizes == {<<4, 3>>, <<5, 4>>, <<6, 3>>, <<128, 384>>}

CtlTdi(n) == {Zeros(n), Ones(n), [i \in 1..n |-> i % 2]}

\* the calls made: write_tdi_read_tdo(tdi), write_tms_tdi_read_tdo(tms, held),
\* send_data(tms, tdi)
CtlInputs ==
    [op : {"tdi"}, n : 0..MaxCtlBits, held : {0}, shortAt : 0..1]
    \cup [op : {"tms"}, n : 0..MaxBits, held : BIT, shortAt : 0..1]
    \cup [op : {"engine"}, n : 0..MaxBits, held : {0}, shortAt : 0..MaxShortAt]

InitController ==
    /\ net = NoNet
    /\ sock = NoSock
    /\ verbose = 0
    /\ adapter = "mpsse"
    /\ cmd \in CtlInputs
    /\ fifo \in (IF cmd.op = "tdi" THEN CtlFifoSizes ELSE {<<4, 3>>})
    /\ device = DeviceInUse(fifo)
    /\ has_client_connected = FALSE
    /\ pc = "ctl_call"
    /\ tap_state = "TEST_LOGIC_RESET"
    /\ tms_line = 0
    /\ target = "tag"
    /\ reply = <<>>
    /\ tms_stream \in (IF cmd.op = "tdi" THEN {<<>>} ELSE BitVectors(cmd.n))
    /\ tdi_stream \in (CASE cmd.op = "tdi" -> CtlTdi(cmd.n)
                         [] cmd.op = "tms" -> {<<>>}
                         [] OTHER -> {[i \in 1..cmd.n |-> i % 2]})
    /\ engine = Fresh(tms_line)

ControllerWriteTdi ==
    /\ pc = "ctl_call"
    /\ cmd.op = "tdi"
    /\ engine' = write_tdi_read_tdo(Fresh(tms_line), tdi_stream,
                                    Env(fifo, target, cmd.shortAt, verbose))
    /\ tms_line' = engine'.line
    /\ pc' = "ctl_done"
    /\ UNCHANGED <<sock, device, net, verbose, adapter, fifo, has_client_connected,
                   tap_state, target, cmd, reply, tms_stream, tdi_stream>>

ControllerWriteTms ==
    /\ pc = "ctl_call"
    /\ cmd.op = "tms"
    /\ engine' = write_tms_tdi_read_tdo(Fresh(tms_line), tms_stream, cmd.held,
                                        Env(fifo, target, cmd.shortAt, verbose))
    /\ tms_line' = engine'.line
    /\ pc' = "ctl_done"
    /\ UNCHANGED <<sock, device, net, verbose, adapter, fifo, has_client_connected,
                   tap_state, target, cmd, reply, tms_stream, tdi_stream>>

ControllerSendData ==
    /\ pc = "ctl_call"
    /\ cmd.op = "engine"
    /\ engine' = send_data(tms_stream, tdi_stream, tms_line,
                           Env(fifo, target, cmd.shortAt, verbose))
    /\ tms_line' = engine'.line
    /\ pc' = "ctl_done"
    /\ UNCHANGED <<sock, device, net, verbose, adapter, fifo, has_client_connected,
                   tap_state, target, cmd, reply, tms_stream, tdi_stream>>

NextController ==
    \/ ControllerWriteTdi
    \/ ControllerWriteTms
    \/ ControllerSendData

SpecController == InitController /\ [][NextController]_vars

---------------------------------------------------------------------------
(* The pending buffer of the controller: _stack_cmd and sync, byte by      *)
(* byte, over a USB device whose writes and reads can fail. Here engine    *)
(* is the controller between operations: buff is _write_buff, before the   *)
(* length of the buffer when the last command was appended, grown the      *)
(* length the buffer and that command had together when _stack_cmd was     *)
(* entered, flushed whether _stack_cmd called sync, raised whether the     *)
(* last operation raised; device.calls is the log of USB transfers.        *)

\* controller operations in one run
MaxOps == 3

\* USB writes that fail in one run
MaxFaults == 2

SEND_IMMEDIATE == "SEND_IMMEDIATE"

BufferFifoSizes == {<<4, 3>>, <<8, 8>>}

\* write_data returns, raises usb.core.USBError, or raises something else
WriteOutcomes == {"ok", "usb_error", "other_error"}

\* read_data_bytes returns the bytes demanded, or fewer
ReadOutcomes == {"complete", "short"}

\* the bytes of a command: the opcode, then length and payload bytes
CmdArray(c) == <<c.op>> \o [i \in 1..(CmdBytes(c) - 1) |-> "byte"]

\* the commands of the three operations, byte chunks up to the chunk limit
BufferCmds(ff) ==
    {Cmd("RW_BITS_TMS_PVE_NVE", 6, 1), Cmd("RW_BITS_PVE_NVE_MSB", 2, 1)}
    \cup {Cmd("RW_BYTES_PVE_NVE_MSB", k - 1, k) :
             k \in 1..Min(FTDI_WR_BUFFER_MAX_LEN(ff), FTDI_RD_BUFFER_MAX_LEN(ff))}

\* bytes the device answers a command with
CmdDemand(c) == IF c.op = "RW_BYTES_PVE_NVE_MSB" THEN c.nbytes ELSE 1

BufferIdle ==
    [buff |-> <<>>, log |-> <<>>, before |-> 0, flushed |-> FALSE, grown |-> 0,
     faults |-> 0, raised |-> FALSE]

Transfer(kind, data, outcome) == [kind |-> kind, data |-> data, outcome |-> outcome]

\* sync(): SEND_IMMEDIATE is appended to the buffer, the buffer is written,
\* and then the buffer is replaced by an empty one; a USBError is passed over
sync(b, wr) ==
    IF b.raised \/ b.buff = <<>> THEN b
    ELSE LET out == b.buff \o <<SEND_IMMEDIATE>>
         IN  CASE wr = "ok" ->
                    [b EXCEPT !.log = Append(@, Transfer("write", out, wr)), !.buff = <<>>]
               [] wr = "usb_error" ->
                    [b EXCEPT !.log = Append(@, Transfer("write", out, wr)), !.buff = out,
                              !.faults = @ + 1]
               [] OTHER ->
                    [b EXCEPT !.log = Append(@, Transfer("write", out, wr)), !.buff = out,
                              !.faults = @ + 1, !.raised = TRUE]

\* _stack_cmd(cmd)
stack_cmd(b, c, wr) ==
    LET full == (Len(b.buff) + Len(c) + 1) >= device.fifo_sizes[1]
        synced == IF full THEN sync(b, wr) ELSE b
    IN  IF synced.raised THEN synced
        ELSE [synced EXCEPT !.before = Len(synced.buff), !.flushed = full,
                            !.grown = Len(b.buff) + Len(c), !.buff = @ \o c]

\* read_data_bytes(demand, 4) and the length check behind it
read_data_bytes(b, demand, rd) ==
    IF b.raised THEN b
    ELSE [b EXCEPT !.log = Append(@, Transfer("read", demand, rd)),
                   !.raised = (rd = "short")]

\* a controller operation from _stack_cmd on: stack, sync, read
StackSyncRead(b, c, wr1, wr2, rd) ==
    read_data_bytes(sync(stack_cmd(b, CmdArray(c), wr1), wr2), CmdDemand(c), rd)

InitBuffer ==
    /\ net = NoNet
    /\ sock = NoSock
    /\ verbose = 0
    /\ adapter = "mpsse"
    /\ fifo \in BufferFifoSizes
    /\ device = DeviceInUse(fifo)
    /\ has_client_connected = TRUE
    /\ pc = "buffer"
    /\ tap_state = "TEST_LOGIC_RESET"
    /\ tms_line = 0
    /\ target = "loopback"
    /\ cmd = [kind |-> "none", ops |-> 0]
    /\ reply = <<>>
    /\ tms_stream = <<>>
    /\ tdi_stream = <<>>
    /\ engine = BufferIdle

\* one of write_tms_tdi_read_tdo, _write_read_bits, _write_read_bytes runs;
\* an operation that raises ends the session
ControllerOperation ==
    /\ pc = "buffer"
    /\ cmd.ops < MaxOps
    /\ \E c \in BufferCmds(fifo), wr1 \in WriteOutcomes, wr2 \in WriteOutcomes,
          rd \in ReadOutcomes :
       \E b \in {StackSyncRead([engine EXCEPT !.log = <<>>], c, wr1, wr2, rd)} :
          /\ b.faults <= MaxFaults
          /\ engine' = b
          /\ device' = [device EXCEPT !.calls = @ \o b.log, !.raised = b.raised]
          /\ cmd' = [kind |-> c.op, ops |-> cmd.ops + 1]
          /\ pc' = IF b.raised THEN "buffer_raised" ELSE "buffer"
    /\ UNCHANGED <<sock, net, verbose, adapter, fifo, has_client_connected, tap_state,
                   tms_line, target, reply, tms_stream, tdi_stream>>

NextBuffer == ControllerOperation

SpecBuffer == InitBuffer /\ [][NextBuffer]_vars

---------------------------------------------------------------------------
(* The loops of send_data and of write_tdi_read_tdo, one iteration per     *)
(* step. engine holds the cursors: head, tms1Pos and tms0Pos of send_data, *)
(* entered the head at the last test of the outer loop; chead, pos and     *)
(* bit_count the head, pos and bit_count of write_tdi_read_tdo. Every USB  *)
(* round trip reads its answer in full or short, and a short read raises.  *)

LoopIdle ==
    [head |-> 0, entered |-> -1, tms1Pos |-> 0, tms0Pos |-> 0,
     chead |-> 0, pos |-> 0, bit_count |-> 0]

InitLoop ==
    /\ net = NoNet
    /\ sock = NoSock
    /\ verbose = 0
    /\ adapter = "mpsse"
    /\ fifo \in CtlFifoSizes
    /\ device = DeviceInUse(fifo)
    /\ has_client_connected = FALSE
    /\ pc = "while_head"
    /\ tap_state = "TEST_LOGIC_RESET"
    /\ tms_line = 0
    /\ target = "loopback"
    /\ cmd = [kind |-> "none"]
    /\ reply = <<>>
    /\ tms_stream \in DecodeTms
    /\ tdi_stream = Zeros(Len(tms_stream))
    /\ engine = LoopIdle

LoopFrame ==
    UNCHANGED <<sock, device, net, verbose, adapter, fifo, has_client_connected, tap_state,
                tms_line, target, cmd, reply, tms_stream, tdi_stream>>

\* while (head < len(tms_stream)), up to the call of write_tdi_read_tdo
OuterTest ==
    /\ pc = "while_head"
    /\ IF engine.head < Len(tms_stream)
       THEN \E tms1Pos \in {Tms1Pos(tms_stream, engine.head)} :
            \E len \in {tms1Pos - engine.head} :
               IF HasZeroSegment(tms1Pos, engine.head)
               THEN /\ engine' = [engine EXCEPT !.entered = engine.head,
                                                !.tms1Pos = tms1Pos,
                                                !.chead = 0,
                                                !.pos = 8 * (len \div 8),
                                                !.bit_count = len - 8 * (len \div 8)]
                    /\ pc' = "write_tdi"
               ELSE /\ engine' = [engine EXCEPT !.entered = engine.head,
                                                !.tms1Pos = tms1Pos]
                    /\ pc' = "at_tms1"
       ELSE /\ pc' = "returned"
            /\ UNCHANGED engine
    /\ LoopFrame

\* one iteration of while(head < pos) in write_tdi_read_tdo
ChunkStep ==
    /\ pc = "write_tdi"
    /\ engine.chead < engine.pos
    /\ \E rd \in ReadOutcomes :
       \E tail \in {Min(engine.chead + max_rw_bits(fifo), engine.pos)} :
          IF rd = "short" /\ tail > engine.chead
          THEN /\ pc' = "raised"
               /\ UNCHANGED engine
          ELSE /\ engine' = [engine EXCEPT !.chead = tail]
               /\ pc' = "write_tdi"
    /\ LoopFrame

\* the byte loop is left: the bits that remain, and the return
ChunkReturn ==
    /\ pc = "write_tdi"
    /\ ~(engine.chead < engine.pos)
    /\ \E rd \in ReadOutcomes :
          IF rd = "short" /\ engine.bit_count # 0
          THEN pc' = "raised"
          ELSE pc' = "at_tms1"
    /\ UNCHANGED engine
    /\ LoopFrame

\* head = tms1Pos; if head >= len(tms_stream): break; tms0Pos is found
AtTms1 ==
    /\ pc = "at_tms1"
    /\ IF engine.tms1Pos >= Len(tms_stream)
       THEN /\ engine' = [engine EXCEPT !.head = engine.tms1Pos]
            /\ pc' = "returned"
       ELSE /\ engine' = [engine EXCEPT !.head = engine.tms1Pos,
                                        !.tms0Pos = Tms0Pos(tms_stream, engine.tms1Pos)]
            /\ pc' = "while_tms0"
    /\ LoopFrame

\* one iteration of while (tms0Pos > head)
TmsStep ==
    /\ pc = "while_tms0"
    /\ engine.tms0Pos > engine.head
    /\ \E rd \in ReadOutcomes :
       \E tail \in {BurstTail(engine.tms0Pos, engine.head)} :
          IF rd = "short"
          THEN /\ pc' = "raised"
               /\ UNCHANGED engine
          ELSE /\ engine' = [engine EXCEPT !.head = tail]
               /\ pc' = "while_tms0"
    /\ LoopFrame

\* the inner loop is left: back to the test of the outer loop
TmsDone ==
    /\ pc = "while_tms0"
    /\ ~(engine.tms0Pos > engine.head)
    /\ pc' = "while_head"
    /\ UNCHANGED engine
    /\ LoopFrame

NextLoop ==
    \/ OuterTest
    \/ ChunkStep
    \/ ChunkReturn
    \/ AtTms1
    \/ TmsStep
    \/ TmsDone

\* the interpreter runs the next statement of send_data as long as there is one
SpecLoopFair == InitLoop /\ [][NextLoop]_vars /\ WF_vars(NextLoop)

---------------------------------------------------------------------------
(* The TCP stream of one session: the client has sent the bytes sock.rx    *)
(* and closed; each recv returns between one byte and the bytes asked for. *)

\* commands a client sends in one session
MaxScript == 3

\* recv number k (from 0) returns at most frag[k mod Len(frag)] bytes
RecvPatterns == {<<1>>, <<2>>, <<3>>, <<1, 4>>, <<64>>}

\* sread(length): recv until length bytes are there; b'' if a recv returns
\* nothing. The result: the data, the bytes left in the stream, the recv count
RECURSIVE SreadLoop(_, _, _, _, _)
SreadLoop(rx, length, frag, k, data) ==
    IF length = 0 THEN [data |-> data, rx |-> rx, k |-> k]
    ELSE LET newData == SubSeq(rx, 1, Min(Min(length, frag[(k % Len(frag)) + 1]), Len(rx)))
         IN  IF newData = <<>> THEN [data |-> <<>>, rx |-> rx, k |-> k + 1]
             ELSE SreadLoop(SubSeq(rx, Len(newData) + 1, Len(rx)), length - Len(newData),
                            frag, k + 1, data \o newData)

\* a read that hands back whatever the first recv delivered
sread_OneRecv(rx, length, frag, k) ==
    LET newData == SubSeq(rx, 1, Min(Min(length, frag[(k % Len(frag)) + 1]), Len(rx)))
    IN  [data |-> newData, rx |-> SubSeq(rx, Len(newData) + 1, Len(rx)), k |-> k + 1]

sread(rx, length, frag, k) == SreadLoop(rx, length, frag, k, <<>>)

\* b'ge', b'tinfo:', b'se', b'ttck:', b'sh', b'ift:'
Ascii_ge == <<103, 101>>

Ascii_tinfo == <<116, 105, 110, 102, 111, 58>>

Ascii_se == <<115, 101>>

Ascii_ttck == <<116, 116, 99, 107, 58>>

Ascii_sh == <<115, 104>>

Ascii_ift == <<105, 102, 116, 58>>

\* the result of reading one command: what it was, the stream after it
Parsed(kind, r, args) == [kind |-> kind, rx |-> r.rx, k |-> r.k, args |-> args]

ParseGetInfo(r) ==
    LET data == sread(r.rx, 6, r.frag, r.k)
    IN  IF data.data = Ascii_tinfo THEN Parsed("getinfo", data, <<>>)
        ELSE Parsed("invalid", data, <<>>)

ParseSetTck(r) ==
    LET data == sread(r.rx, 9, r.frag, r.k)
    IN  IF SubSeq(data.data, 1, Min(5, Len(data.data))) = Ascii_ttck
        THEN Parsed("settck", data, <<FromBytesLE(SubSeq(data.data, 6, 9))>>)
        ELSE Parsed("invalid", data, <<>>)

ParseShiftVectors(numBits, r, frag) ==
    LET numBytes == (numBits + 7) \div 8
        vectArg == sread(r.rx, numBytes * 2, frag, r.k)
    IN  IF vectArg.data = <<>> THEN Parsed("invalid", vectArg, <<>>)
        ELSE Parsed("shift", vectArg, <<numBits, vectArg.data>>)

ParseShift(r) ==
    LET data == sread(r.rx, 4, r.frag, r.k)
        numBitsArg == sread(data.rx, 4, r.frag, data.k)
    IN  IF data.data # Ascii_ift THEN Parsed("invalid", data, <<>>)
        ELSE IF numBitsArg.data = <<>> THEN Parsed("invalid", numBitsArg, <<>>)
        ELSE ParseShiftVectors(FromBytesLE(numBitsArg.data), numBitsArg, r.frag)

\* one turn of the command loop on the stream rx
ParseCommand(rx, frag) ==
    LET cmdSnippet == sread(rx, 2, frag, 0)
        r == [rx |-> cmdSnippet.rx, k |-> cmdSnippet.k, frag |-> frag]
    IN  CASE cmdSnippet.data = Ascii_ge -> ParseGetInfo(r)
          [] cmdSnippet.data = Ascii_se -> ParseSetTck(r)
          [] cmdSnippet.data = Ascii_sh -> ParseShift(r)
          [] OTHER -> Parsed("invalid", cmdSnippet, <<>>)

\* what a client sends for its commands
WireGetInfo == [kind |-> "getinfo", args |-> <<>>, bytes |-> Ascii_ge \o Ascii_tinfo]

WireSetTck(period) ==
    [kind |-> "settck", args |-> <<period>>,
     bytes |-> Ascii_se \o Ascii_ttck \o ToBytesLE4(period)]

WireShift(tms, tdi) ==
    [kind |-> "shift", args |-> <<Len(tms), ClientPack(tms, 0) \o ClientPack(tdi, 0)>>,
     bytes |-> Ascii_sh \o Ascii_ift \o ToBytesLE4(Len(tms))
               \o ClientPack(tms, 0) \o ClientPack(tdi, 0)]

StreamCommands ==
    {WireGetInfo, WireSetTck(1000), WireShift(<<>>, <<>>), WireShift(<<1>>, <<0>>),
     WireShift(Zeros(4) \o Ones(5), Ones(9))}

RECURSIVE StreamBytes(_)
StreamBytes(script) ==
    IF script = <<>> THEN <<>> ELSE script[1].bytes \o StreamBytes(Tail(script))

\* bytes of the last command that the peer did not send before closing
StreamCuts == {0, 1, 5}

InitStream ==
    /\ net = NoNet
    /\ verbose = 1
    /\ adapter = "mpsse"
    /\ fifo = <<2048, 2048>>
    /\ device = DeviceInUse(fifo)
    /\ has_client_connected = TRUE
    /\ pc = "loop"
    /\ tap_state = "TEST_LOGIC_RESET"
    /\ tms_line = 0
    /\ target = "loopback"
    /\ cmd = NoCmd
    /\ reply = <<>>
    /\ tms_stream = <<>>
    /\ tdi_stream = <<>>
    /\ engine = Fresh(0)
    /\ \E n \in 1..MaxScript : \E script \in [1..n -> StreamCommands] :
       \E cut \in StreamCuts :
          sock = [rx |-> SubSeq(StreamBytes(script), 1, Len(StreamBytes(script)) - cut),
                  used |-> 0, script |-> script, done |-> <<>>, cut |-> cut]

\* one turn of the command loop: the command is read from the stream and
\* handled (continue), or the handler breaks
StreamCommand ==
    /\ pc = "loop"
    /\ \E frag \in RecvPatterns :
       \E p \in {ParseCommand(sock.rx, frag)} :
          /\ cmd' = [kind |-> p.kind, args |-> p.args]
          /\ IF p.kind = "invalid"
             THEN /\ sock' = [sock EXCEPT !.rx = p.rx]
                  /\ pc' = "listening"
                  /\ has_client_connected' = FALSE
             ELSE /\ sock' = [sock EXCEPT !.rx = p.rx,
                                          !.used = @ + (Len(sock.rx) - Len(p.rx)),
                                          !.done = Append(@, [kind |-> p.kind, args |-> p.args])]
                  /\ pc' = "continue"
                  /\ UNCHANGED has_client_connected
    /\ reply' = <<>>
    /\ UNCHANGED <<device, net, verbose, adapter, fifo, tap_state, tms_line, target,
                   tms_stream, tdi_stream, engine>>

NextStream ==
    \/ StreamCommand
    \/ Continue

SpecStream == InitStream /\ [][NextStream]_vars

---------------------------------------------------------------------------
(* Properties of the shift engine (checked under SpecEngine).              *)

EngineDone == pc = "engine_done"

\* the sub-calls of one kind
CallsOf(op) == {k \in 1..Len(engine.calls) : engine.calls[k].op = op}

\* the sub-call that clocks index i
CallAt(i) ==
    CHOOSE k \in 1..Len(engine.calls) : engine.calls[k].head <= i /\ i < engine.calls[k].tail

\* the [head, tail) ranges of a schedule, in order
Ranges(calls) == [k \in 1..Len(calls) |-> <<calls[k].op, calls[k].head, calls[k].tail>>]

\* some TMS segment of the shift carries TDI bits that are not all equal
SomeSegmentNotConstant ==
    \E k \in CallsOf("tms") :
        TdiNotConstant(tdi_stream, engine.calls[k].head, engine.calls[k].tail)

\* C1: send_data returns a TDO vector of exactly N bits for TMS/TDI vectors
\* of N bits, for every N >= 0, when every USB read returns what was demanded.
C1_TdoLength ==
    EngineDone => engine.ok /\ Len(engine.tdo) = Len(tms_stream)

C1_Witness ==
    /\ EngineDone
    /\ Len(tms_stream) = MaxBits
    /\ Len(engine.tdo) = MaxBits
    /\ CallsOf("tdi") # {}
    /\ CallsOf("tms") # {}

C3_CallsCoverInOrder ==
    EngineDone =>
        LET c == engine.calls
            n == Len(tms_stream)
        IN  /\ n = 0 => c = <<>>
            /\ n > 0 => Len(c) > 0 /\ c[1].head = 0 /\ c[Len(c)].tail = n
            /\ \A k \in 1..Len(c) : c[k].head < c[k].tail
            /\ \A k \in 1..(Len(c) - 1) : c[k + 1].head = c[k].tail
            /\ Len(engine.clocks) = n
            /\ engine.head = n

C3_Witness ==
    /\ EngineDone
    /\ Len(engine.calls) >= 4
    /\ Len(tms_stream) = MaxBits

\* C4: when every TMS bit is 0 the engine calls write_tdi_read_tdo only:
\* bulk byte/bit opcodes, no TMS opcode.
C4_AllZeroTmsBulkOnly ==
    (EngineDone /\ tms_stream = Zeros(Len(tms_stream))) =>
        /\ CallsOf("tms") = {}
        /\ \A t \in 1..Len(engine.usb) : engine.usb[t].cmd.op # "RW_BITS_TMS_PVE_NVE"
        /\ Len(engine.clocks) = Len(tms_stream)

C4_Witness ==
    /\ EngineDone
    /\ tms_stream = Zeros(MaxBits)
    /\ CallsOf("tdi") # {}
    /\ Len(engine.usb) >= 2

\* C5: when every TMS bit is 1 the engine calls write_tms_tdi_read_tdo only,
\* with at most 7 bits per call.
C5_AllOneTmsSegmentsOnly ==
    (EngineDone /\ tms_stream = Ones(Len(tms_stream))) =>
        /\ CallsOf("tdi") = {}
        /\ \A k \in 1..Len(engine.calls) : engine.calls[k].tail - engine.calls[k].head <= 7
        /\ \A t \in 1..Len(engine.usb) :
              /\ engine.usb[t].cmd.op = "RW_BITS_TMS_PVE_NVE"
              /\ engine.usb[t].cmd.len <= 6
        /\ Len(engine.clocks) = Len(tms_stream)

C5_Witness ==
    /\ EngineDone
    /\ tms_stream = Ones(MaxBits)
    /\ Len(engine.calls) >= 2
    /\ engine.calls[1].tail - engine.calls[1].head = 7

\* C6: when the TDI bits of a TMS segment are not all equal, send_data does not
\* raise: it issues the schedule it issues for constant TDI, holds
\* tdi[tail-1] during every segment and returns N bits.
C6_NonConstantTdiContinues ==
    (EngineDone /\ SomeSegmentNotConstant) =>
        /\ engine.ok
        /\ Len(engine.tdo) = Len(tms_stream)
        /\ Ranges(engine.calls)
             = Ranges(send_data(tms_stream, Zeros(Len(tms_stream)), engine.entry,
                                Env(fifo, target, 0, verbose)).calls)
        /\ \A k \in CallsOf("tms") :
              LET c == engine.calls[k]
              IN  /\ c.held = At(tdi_stream, c.tail - 1)
                  /\ \A i \in c.head..(c.tail - 1) : At(engine.clocks, i).tdi = c.held

C6_Witness ==
    /\ EngineDone
    /\ SomeSegmentNotConstant
    /\ engine.warned
    /\ engine.ok
    /\ Len(engine.tdo) = Len(tms_stream)

---------------------------------------------------------------------------
(* Properties of the server (checked under Spec).                          *)

\* the handler has dealt with a command of this kind and is about to read
\* the next one
Handled(kind) == pc = "continue" /\ cmd.kind = kind

\* bytes put on the socket for the command
RECURSIVE SentBytes(_)
SentBytes(payloads) ==
    IF payloads = <<>> THEN 0 ELSE Len(payloads[1]) + SentBytes(Tail(payloads))

\* int(text) for ASCII decimal digits
RECURSIVE DecimalValue(_)
DecimalValue(text) ==
    IF text = <<>> THEN 0
    ELSE 10 * DecimalValue(SubSeq(text, 1, Len(text) - 1)) + (text[Len(text)] - 48)

IsDigits(text) == text # <<>> /\ \A i \in 1..Len(text) : text[i] \in 48..57

\* "xvcServer_v1.0:"
InfoHead == <<120, 118, 99, 83, 101, 114, 118, 101, 114, 95, 118, 49, 46, 48, 58>>

\* payload is 'xvcServer_v1.0:<N>\n' with N in decimal
IsInfoReply(payload) ==
    /\ Len(payload) >= Len(InfoHead) + 2
    /\ SubSeq(payload, 1, Len(InfoHead)) = InfoHead
    /\ payload[Len(payload)] = 10
    /\ IsDigits(SubSeq(payload, Len(InfoHead) + 1, Len(payload) - 1))

InfoNumber(payload) == DecimalValue(SubSeq(payload, Len(InfoHead) + 1, Len(payload) - 1))

\* C7: every well-formed getinfo: is answered with 'xvcServer_v1.0:<N>\n'
\* before the next command is read, at every verbosity level.
C7_GetInfoAlwaysAnswered ==
    Handled("getinfo") => Len(reply) = 1 /\ IsInfoReply(reply[1])

\* C8: the integer of a getinfo reply is min(tms_max + tdi_max, 2 * tdo_max);
\* with the MPSSE controller on FIFOs (W, R) it is min(2 * (W - 3), 2 * (R - 2)).
C8_InfoNumber ==
    Handled("getinfo") /\ reply # <<>> =>
        /\ IsInfoReply(reply[1])
        /\ LET m == AdapterMaxByteSizes(adapter, fifo)
           IN  InfoNumber(reply[1]) = Min(m[1] + m[2], 2 * m[3])
        /\ adapter = "mpsse" =>
              InfoNumber(reply[1]) = Min(2 * (fifo[1] - 3), 2 * (fifo[2] - 2))

\* a reply went out for an MPSSE device whose read FIFO is the smaller limit
C8_Witness ==
    /\ Handled("getinfo")
    /\ reply # <<>>
    /\ adapter = "mpsse"
    /\ 2 * (fifo[2] - 2) < 2 * (fifo[1] - 3)

\* C9: a shift: of N >= 0 bits whose payloads arrived in full (and whose USB
\* transfers succeeded) is answered with exactly ceil(N / 8) bytes, and the
\* session goes on to the next command.
C9_ShiftAnsweredAndContinues ==
    cmd.kind = "shift" /\ cmd.outcome # "raised" =>
        /\ SentBytes(reply) = (cmd.numBits + 7) \div 8
        /\ pc = "continue"
        /\ has_client_connected

\* the five TMS bits of the shift just handled, as the low bits of its wire byte
WireTms5(byte) ==
    cmd.kind = "shift" /\ cmd.numBits = 5 /\ cmd.tmsBytes[1] % 32 = byte

\* C10 as stated: at Exit1-IR a five-bit shift with TMS 1,0,1,1,1 (wire byte
\* 0x1D) is answered with 0x1F, without the engine and without moving the tracker.
C10_InterceptsWire1D ==
    WireTms5(29) /\ cmd.tap = "EXIT_1_IR" =>
        /\ reply = << <<31>> >>
        /\ ~cmd.called
        /\ engine.usb = <<>>
        /\ tap_state = "EXIT_1_IR"

\* C10, amended: the intercepted TMS vector is 1,1,1,0,1 (index 0 first, wire
\* byte 0x17); then the reply is the single byte 0x1F, the engine is not
\* called, no USB transfer is made and the tracker stays at Exit1-IR.
C10_InterceptsWire17 ==
    WireTms5(23) /\ cmd.tap = "EXIT_1_IR" =>
        /\ reply = << <<31>> >>
        /\ ~cmd.called
        /\ engine.usb = <<>>
        /\ engine.clocks = <<>>
        /\ tap_state = "EXIT_1_IR"
        /\ pc = "continue"

C10_Witness ==
    /\ WireTms5(23)
    /\ cmd.tap = "EXIT_1_IR"
    /\ cmd.outcome = "intercepted"
    /\ tdi_stream # Zeros(5)

\* C11: when the handler looks at the tracker for the next shift, the tracker
\* is the IEEE 1149.1 transition function folded over the TMS bits sent so
\* far: each shift handed to the adapter advances it by its TMS vector, with
\* the MPSSE adapter as with the bit-bang adapter.
C11_TrackerFollowsTms ==
    cmd.kind = "shift" /\ cmd.outcome = "replied" =>
        tap_state = TapTrack(cmd.tap, tms_stream)

\* C12: a USB/JTAG error during a shift ends the session and releases the
\* client-connected flag, so that the next client is accepted.
C12_ErrorReleasesFlag ==
    cmd.kind = "shift" /\ cmd.outcome = "raised" =>
        pc = "listening" /\ ~has_client_connected

\* C13: an unknown two-byte tag, a malformed command body or a peer close in
\* the middle of a message gets no reply and no adapter call; the handler
\* leaves the loop and clears has_client_connected, and the server waits for
\* the next connection.
C13_MalformedEndsSession ==
    cmd.kind = "invalid" =>
        /\ reply = <<>>
        /\ engine.calls = <<>>
        /\ engine.usb = <<>>
        /\ pc = "listening"
        /\ ~has_client_connected

\* the peer closed between num_bits and the vectors of a shift:
C13_Witness ==
    /\ cmd.kind = "invalid"
    /\ cmd.why = "closed_in_vectors"
    /\ pc = "listening"

\* The frequency an FTDI high-speed MPSSE reports for a requested frequency:
\* the 30 MHz base clock divided by the smallest whole divisor that does not
\* exceed the request (what JtagController.set_frequency returns).
ControllerFrequency(frequency) ==
    30000000 \div ((30000000 + frequency - 1) \div frequency)

\* C17: settck: with period p asks the controller for 1e9 / p Hz and replies
\* with four little-endian bytes holding 1e9 / (the frequency the controller
\* reports), the period actually achieved.
C17_SetTckReportsAchieved ==
    Handled("settck") =>
        reply = << ToBytesLE4(1000000000 \div
                              ControllerFrequency(1000000000 \div cmd.set_period)) >>

---------------------------------------------------------------------------
(* Properties of the listening socket (checked under SpecListener).        *)

\* the connections waiting in the listen queue
Queued == {net.backlog[i] : i \in 1..Len(net.backlog)}

\* C14: at most one session is past the has_client_connected check: while a
\* session is in the command loop the flag is set and the session belongs to
\* one accepted client, and handle() is entered for another connection (even
\* to reject it) only when no session is in the loop.
C14_SingleSession ==
    /\ SessionActive =>
          /\ has_client_connected
          /\ net.client \in Clients
          /\ net.client \notin Queued
    /\ cmd.kind = "rejected" => pc = "listening"

\* a shift is answered for one client while another waits in the listen queue
C14_Witness ==
    /\ pc = "continue"
    /\ cmd.kind = "shift"
    /\ cmd.outcome = "replied"
    /\ Queued # {}

\* C15: a client that connects while another client's session is active is
\* rejected: no command of it is ever read, so it never owns a session.
C15_LateClientRejected ==
    SessionActive => net.client \notin net.late

\* C16: SIGINT, wherever it arrives, ends the session and then the process:
\* the server does not go back to waiting for clients.
C16_SigintTerminates ==
    cmd.kind = "sigint" => pc = "exited"

---------------------------------------------------------------------------
(* Properties of the wire conversions (checked under SpecWire and Spec).   *)

\* bit i (from 0) of a wire byte vector: (bytes[i div 8] >> (i mod 8)) & 1
WireBit(bytes, i) == (bytes[(i \div 8) + 1] \div (2 ^ (i % 8))) % 2

\* C18: a byte vector of length L turned into 8L bits by byteVectToBitStream
\* and packed like TDO (pad, reverse, byteswap, bytes) is the vector again.
C18_WireRoundTrip ==
    pc = "wire_done" /\ cmd.bitLen = 8 * Len(cmd.bytes) => reply = <<cmd.bytes>>

C18_Witness ==
    /\ pc = "wire_done"
    /\ cmd.bytes = <<23, 128>>
    /\ cmd.bitLen = 16
    /\ reply = << <<23, 128>> >>

\* C19: byteVectToBitStream(bytes, N) has exactly N bits and bit i is
\* (bytes[i div 8] >> (i mod 8)) & 1; nothing above bit N - 1 has any effect.
C19_BitOrder ==
    pc = "wire_done" =>
        /\ Len(tms_stream) = cmd.bitLen
        /\ \A i \in 0..(cmd.bitLen - 1) : tms_stream[i + 1] = WireBit(cmd.bytes, i)

\* three bits taken from a byte whose padding bits are all set
C19_Witness ==
    /\ pc = "wire_done"
    /\ cmd.bytes = <<253>>
    /\ cmd.bitLen = 3
    /\ tms_stream = <<1, 0, 1>>

\* C20: in a shift reply TDO bit i is bit (i mod 8) of byte (i div 8), and the
\* bits of the last byte above the last TDO bit are zero.
C20_ReplyBitOrder ==
    cmd.kind = "shift" /\ cmd.outcome = "replied" =>
        /\ Len(reply) = 1
        /\ Len(engine.tdo) = cmd.numBits
        /\ 8 * Len(reply[1]) >= cmd.numBits
        /\ \A i \in 0..(8 * Len(reply[1]) - 1) :
              WireBit(reply[1], i) = IF i < cmd.numBits THEN engine.tdo[i + 1] ELSE 0

\* nine TDO bits, not all alike, answered in two bytes
C20_Witness ==
    /\ cmd.kind = "shift"
    /\ cmd.outcome = "replied"
    /\ cmd.numBits = 9
    /\ reply \notin {<< <<0, 0>> >>, << <<255, 1>> >>}

---------------------------------------------------------------------------
(* Properties of the command stream (checked under SpecStream).            *)

\* bytes the handler reads for one handled command
CommandSize(c) ==
    CASE c.kind = "getinfo" -> 8
      [] c.kind = "settck" -> 11
      [] c.kind = "shift" -> 10 + 2 * ((c.args[1] + 7) \div 8)

RECURSIVE SizeSum(_)
SizeSum(done) == IF done = <<>> THEN 0 ELSE CommandSize(done[1]) + SizeSum(Tail(done))

\* the commands of a script that arrive whole, up to the first zero-bit shift
RECURSIVE HandledPrefix(_, _)
HandledPrefix(script, cut) ==
    IF script = <<>> THEN <<>>
    ELSE IF (Len(script) = 1 /\ cut > 0)
            \/ (script[1].kind = "shift" /\ script[1].args[1] = 0) THEN <<>>
    ELSE <<[kind |-> script[1].kind, args |-> script[1].args]>>
         \o HandledPrefix(Tail(script), cut)

\* C21: a read returns the requested byte count or nothing, whatever the
\* fragmentation; the handler consumes 8 / 11 / 10 + 2*ceil(N/8) bytes per
\* command, so the commands handled are the commands sent, in arrival order,
\* and every command that arrived whole is handled by the end of the session
C21_StreamBoundaries ==
    /\ \A frag \in RecvPatterns : \A length \in 0..12 :
          Len(sread(sock.rx, length, frag, 0).data) \in {0, length}
    /\ LET expected == HandledPrefix(sock.script, sock.cut)
       IN  /\ Len(sock.done) <= Len(expected)
           /\ sock.done = SubSeq(expected, 1, Len(sock.done))
           /\ pc = "listening" => sock.done = expected
    /\ sock.used = SizeSum(sock.done)
    /\ pc # "listening" =>
          sock.rx = SubSeq(StreamBytes(sock.script), sock.used + 1,
                           Len(StreamBytes(sock.script)) - sock.cut)

C21_Witness ==
    /\ pc = "listening"
    /\ Len(sock.done) = 3
    /\ sock.done[1].kind = "shift" /\ sock.done[1].args[1] = 9
    /\ sock.done[2].kind = "getinfo"
    /\ sock.done[3].kind = "settck" /\ sock.done[3].args = <<1000>>
    /\ sock.used = 14 + 8 + 11

---------------------------------------------------------------------------
(* Properties of the mixed vector (checked under SpecMixed).               *)

\* the calls the engine made are one bulk TDI call of bits [0,5) and then
\* one TMS call of bits [5,10) with the TDI level held at `held`
MixedCalls(held) ==
    engine.calls = <<[op |-> "tdi", head |-> 0, tail |-> 5, held |-> X],
                     [op |-> "tms", head |-> 5, tail |-> 10, held |-> held]>>

\* C22, as stated: the TDI level held during the TMS call is tdi[4]
C22_HeldIsTdi4 ==
    pc = "engine_done" =>
        /\ engine.ok
        /\ MixedCalls(At(tdi_stream, 4))
        /\ Len(engine.tdo) = 10

\* C22, amended: one bulk TDI call of length 5, then one TMS call of length 5
\* whose held TDI level is the last bit of its own segment, tdi[9]; 10 TDO
\* bits are returned
C22_HeldIsTdi9 ==
    pc = "engine_done" =>
        /\ engine.ok
        /\ MixedCalls(At(tdi_stream, 9))
        /\ Len(engine.tdo) = 10

C22_Witness ==
    /\ pc = "engine_done"
    /\ tms_stream = MixedTms
    /\ At(tdi_stream, 4) # At(tdi_stream, 9)
    /\ Len(engine.calls) = 2
    /\ engine.calls[2].held = At(tdi_stream, 9)

---------------------------------------------------------------------------
(* The tracker and the data lines (checked under SpecTrack).               *)

\* the other TDI vectors of a shift: the complement, and the two constants
OtherTdi(tdi) ==
    {[k \in 1..Len(tdi) |-> 1 - tdi[k]], Zeros(Len(tdi)), Ones(Len(tdi))} \ {tdi}

\* the tracker after the second run of the shift that is being handled: the
\* same TMS bytes, the TDI vector tdi, the target tgt
SecondRun(tmsBytes, tdi, pad, shortAt, tgt) ==
    HandleShiftOn(ToBytesLE4(Len(tdi)), tmsBytes \o ClientPack(tdi, pad), shortAt, tgt)

\* C23: a second run of a shift command from the same state with the same
\* TMS vector, another TDI vector and a target that answers with other TDO
\* values, which ends the same way (reply, intercept or error), leaves the
\* tracker in the same state as the first run
C23_TrackerIgnoresData ==
    [][(pc = "loop" /\ cmd'.kind = "shift" /\ cmd'.outcome # "aborted") =>
          \A tdi \in OtherTdi(tdi_stream'), tgt \in Targets, shortAt \in {0, 1} :
             \A run \in {SecondRun(cmd'.tmsBytes, tdi, 0, shortAt, tgt)} :
                run.outcome = cmd'.outcome => run.tap = tap_state']_vars

\* a replied shift on the bit-bang adapter that moved the tracker, with TDI
\* not constant and TDO following TDI
C23_Witness ==
    /\ cmd.kind = "shift" /\ cmd.outcome = "replied"
    /\ adapter = "gpio" /\ target = "loopback"
    /\ Len(tms_stream) >= 4
    /\ tap_state # cmd.tap
    /\ tdi_stream \notin {Zeros(Len(tdi_stream)), Ones(Len(tdi_stream))}
    /\ engine.tdo = tdi_stream

---------------------------------------------------------------------------
(* Properties of the life cycle (checked under SpecLifecycle).             *)

\* C24: after one reset, and after two in a row, the target's TAP and the
\* tracker are in Test-Logic-Reset, whatever state the TAP was in
C24_ResetReachesTlr ==
    cmd.kind = "reset" =>
        /\ device.tap = "TEST_LOGIC_RESET"
        /\ tap_state = "TEST_LOGIC_RESET"

\* C28: configure on a configured controller fails, opens nothing and leaves
\* the cached FIFO sizes as they were
C28_ConfigureRefusesReopen ==
    (cmd.kind = "configure" /\ cmd.was_open) =>
        /\ device.raised
        /\ device.opens = cmd.opens
        /\ fifo = cmd.fifo

\* C29: close() on a controller that is not open makes no device call, raises
\* nothing and changes nothing; close() on an open controller closes the
\* device once and marks the controller not open
C29_CloseIsSafe ==
    [][cmd'.kind = "close" =>
          /\ ~device'.opened
          /\ ~device'.raised
          /\ device.opened => device'.calls = Append(device.calls, "close")
          /\ ~device.opened =>
                /\ device'.calls = device.calls
                /\ device'.opens = device.opens
                /\ device'.tap = device.tap
                /\ fifo' = fifo]_vars

\* a second close() right after the close() of an open controller
C29_Witness ==
    /\ cmd.kind = "close"
    /\ ~cmd.was_open
    /\ cmd.calls # <<>>
    /\ cmd.calls[Len(cmd.calls)] = "close"
    /\ device.calls = cmd.calls
    /\ ~device.opened

---------------------------------------------------------------------------
(* Properties of the controller (checked under SpecController).            *)

CtlDone(op) == pc = "ctl_done" /\ cmd.op = op

\* C25: with every USB read complete, write_tdi_read_tdo returns as many bits
\* as it was given, for every length from 0 and every FIFO size pair
C25_TdoLengthIsInputLength ==
    (CtlDone("tdi") /\ cmd.shortAt = 0) =>
        /\ engine.ok
        /\ Len(engine.tdo) = Len(tdi_stream)

\* two byte chunks and a remainder of bits
C25_Witness ==
    /\ CtlDone("tdi") /\ cmd.shortAt = 0
    /\ fifo = <<4, 3>>
    /\ Len(tdi_stream) = 20
    /\ Len(engine.usb) = 3
    /\ Len(engine.tdo) = 20

\* length of the TMS segment of an engine call
CallLength(c) == c.tail - c.head

\* C26: write_tms_tdi_read_tdo raises for a length of 0 and of 8 or more with
\* nothing stacked, written or clocked; for a length of 1..7 it returns that
\* many TDO bits; every TMS call of the engine has a length of 1..7
C26_TmsLengthContract ==
    /\ CtlDone("tms") =>
          IF Len(tms_stream) \in 1..7
          THEN cmd.shortAt = 0 => (engine.ok /\ Len(engine.tdo) = Len(tms_stream))
          ELSE /\ ~engine.ok
               /\ engine.usb = <<>>
               /\ engine.clocks = <<>>
               /\ engine.tdo = <<>>
    /\ CtlDone("engine") =>
          \A i \in 1..Len(engine.calls) :
             engine.calls[i].op = "tms" => CallLength(engine.calls[i]) \in 1..7

C26_Witness ==
    /\ CtlDone("tms")
    /\ Len(tms_stream) = 8
    /\ ~engine.ok
    /\ engine.usb = <<>>

\* USB round trips of one engine call
CallTrips(c) ==
    IF c.op = "tms" THEN 1
    ELSE LET bytes == CallLength(c) \div 8
             chunk == max_rw_bits(fifo) \div 8
         IN  ((bytes + chunk - 1) \div chunk) + (IF CallLength(c) % 8 # 0 THEN 1 ELSE 0)

RECURSIVE TripsOfCalls(_)
TripsOfCalls(calls) ==
    IF calls = <<>> THEN 0 ELSE CallTrips(calls[1]) + TripsOfCalls(Tail(calls))

\* C27: when the read of round trip number shortAt comes back short, send_data
\* is left with the error: that round trip is the last one made, it belongs to
\* the last sub-call entered, and no TDO bits are returned
C27_ErrorLeavesEngine ==
    (CtlDone("engine") /\ cmd.shortAt > 0) =>
        IF engine.ok
        THEN Len(engine.usb) < cmd.shortAt /\ Len(engine.tdo) = Len(tms_stream)
        ELSE /\ Len(engine.usb) = cmd.shortAt
             /\ engine.tdo = <<>>
             /\ engine.calls # <<>>
             /\ TripsOfCalls(SubSeq(engine.calls, 1, Len(engine.calls) - 1)) < cmd.shortAt
             /\ cmd.shortAt <= TripsOfCalls(engine.calls)

\* the second round trip fails, with a sub-call still to come in a run
\* without the failure
C27_Witness ==
    /\ CtlDone("engine")
    /\ cmd.shortAt = 2
    /\ ~engine.ok
    /\ tms_stream = <<0, 0, 1, 0, 0, 1, 1, 0, 0>>
    /\ Len(engine.calls) = 2

\* C30: every USB round trip writes at most W bytes in its flush (command,
\* payload and SEND_IMMEDIATE) and demands at most R - 2 bytes back
C30_TripsFitFifos ==
    \A i \in 1..Len(engine.usb) :
       /\ engine.usb[i].written <= fifo[1]
       /\ engine.usb[i].demand + 2 <= fifo[2]

---------------------------------------------------------------------------
(* The TMS pin during bulk calls (checked under Spec).                     *)

\* C31: every clock of a bulk TDI call is produced with the TMS pin at 0,
\* in every shift command of a session
C31_BulkClocksTmsLow ==
    \A k \in 1..Len(engine.calls) :
       engine.calls[k].op = "tdi" =>
          \A i \in engine.calls[k].head..(engine.calls[k].tail - 1) :
             i < Len(engine.clocks) => At(engine.clocks, i).tms = 0

---------------------------------------------------------------------------
(* The one-TMS runs of a shift (checked under SpecEngine).                 *)

\* a run begins at a TMS call that does not continue the call before it
RunStarts ==
    {engine.calls[k].head : k \in {j \in CallsOf("tms") :
        engine.calls[j].head = 0 \/ At(tms_stream, engine.calls[j].head - 1) = 0}}

\* one past the first TMS '0' at or after h, or the end of the vector
RunEnd(h) ==
    LET zeros == {i \in h..(Len(tms_stream) - 1) : At(tms_stream, i) = 0}
    IN  IF zeros = {} THEN Len(tms_stream)
        ELSE (CHOOSE i \in zeros : \A j \in zeros : i <= j) + 1

\* the TMS calls of a run of L bits from h: 7 bits each, the last the rest
RunCalls(h, L) ==
    [j \in 1..((L + 6) \div 7) |->
        [op |-> "tms", head |-> h + 7 * (j - 1), tail |-> Min(h + 7 * j, h + L),
         held |-> At(tdi_stream, Min(h + 7 * j, h + L) - 1)]]

\* the calls from number k on, n of them
CallsFrom(k, n) == SubSeq(engine.calls, k, k + n - 1)

\* C32: every run of TMS calls begins on a TMS '1' and ends behind the next
\* TMS '0' or at the end of the vector; a run of L bits is sent as ceil(L/7)
\* TMS calls, all but the last of 7 bits, each holding tdi[tail-1]; every TMS
\* call belongs to a run
C32_RunsInSevens ==
    EngineDone =>
        /\ engine.ok
        /\ \A h \in RunStarts :
              LET run == RunCalls(h, RunEnd(h) - h)
                  k == CHOOSE j \in CallsOf("tms") : engine.calls[j].head = h
              IN  /\ At(tms_stream, h) = 1
                  /\ \A i \in h..(RunEnd(h) - 2) : At(tms_stream, i) = 1
                  /\ CallsFrom(k, Len(run)) = run
        /\ \A k \in CallsOf("tms") :
              \E h \in RunStarts : h <= engine.calls[k].head /\ engine.calls[k].tail <= RunEnd(h)

\* a run of nine ones: a call of 7 bits and a call of 2
C32_Witness ==
    /\ EngineDone
    /\ tms_stream = Ones(9)
    /\ tdi_stream = <<1, 0, 1, 0, 1, 0, 1, 0, 1>>
    /\ Ranges(engine.calls) = <<<<"tms", 0, 7>>, <<"tms", 7, 9>>>>
    /\ engine.calls[1].held = 1

---------------------------------------------------------------------------
(* The order of the TDO bits (checked under SpecDecode).                   *)

\* the samples of the clocks of one sub-call, in clock order
SamplesOf(c) == [j \in 1..(c.tail - c.head) |-> At(engine.clocks, c.head + j - 1).tdo]

\* C33: the TDO vector is the results of the sub-calls in the order of the
\* calls, and bit i of it is the sample of clock i, whether that clock was
\* part of a byte chunk, of the trailing bit chunk or of a TMS burst
C33_TdoInClockOrder ==
    EngineDone =>
        /\ engine.ok
        /\ Len(engine.clocks) = Len(tms_stream)
        /\ Len(engine.tdo) = Len(tms_stream)
        /\ \A k \in 1..Len(engine.calls) :
              Slice(engine.tdo, engine.calls[k].head, engine.calls[k].tail)
                 = SamplesOf(engine.calls[k])
        /\ \A i \in 0..(Len(tms_stream) - 1) :
              /\ At(engine.tdo, i) = At(engine.clocks, i).tdo
              /\ target = "tag" => At(engine.tdo, i) = i

\* 17 bits through two byte chunks and a bit chunk, then a burst of 7 bits,
\* a burst of 2 bits and a bit chunk of 2 bits
C33_Witness ==
    /\ EngineDone
    /\ target = "tag"
    /\ fifo = <<4, 3>>
    /\ tms_stream = Zeros(17) \o Ones(8) \o Zeros(3)
    /\ Ranges(engine.calls)
         = <<<<"tdi", 0, 17>>, <<"tms", 17, 24>>, <<"tms", 24, 26>>, <<"tdi", 26, 28>>>>
    /\ Len(engine.usb) = 6
    /\ engine.tdo = [i \in 1..28 |-> i - 1]

---------------------------------------------------------------------------
(* The chunks of write_tdi_read_tdo (checked under SpecController).        *)

\* what a USB round trip carried: the opcode and the bytes or bits clocked
TripSize(t) ==
    <<t.cmd.op, IF t.cmd.op = "RW_BYTES_PVE_NVE_MSB" THEN t.cmd.nbytes ELSE t.cmd.len + 1>>

\* n bits in byte chunks of M bytes, the last chunk the rest, then the bits
\* that do not fill a byte
ChunksOf(n, M) ==
    LET B == n \div 8
        chunks == (B + M - 1) \div M
    IN  [j \in 1..(chunks + (IF n % 8 # 0 THEN 1 ELSE 0)) |->
            IF j <= chunks THEN <<"RW_BYTES_PVE_NVE_MSB", Min(M, B - M * (j - 1))>>
            ELSE <<"RW_BITS_PVE_NVE_MSB", n % 8>>]

\* C34: write_tdi_read_tdo on n bits makes one round trip per byte chunk of
\* min(R-2, W-3) bytes (the last chunk the remaining bytes), then one for the
\* n mod 8 remaining bits if there are any, and none of the size checks raises
C34_ChunkSchedule ==
    (CtlDone("tdi") /\ cmd.shortAt = 0) =>
        /\ engine.ok
        /\ [t \in 1..Len(engine.usb) |-> TripSize(engine.usb[t])]
              = ChunksOf(Len(tdi_stream), Min(fifo[2] - 2, fifo[1] - 3))

\* 27 bits with chunks of 2 bytes: 2 bytes, 1 byte, 3 bits
C34_Witness ==
    /\ CtlDone("tdi") /\ cmd.shortAt = 0
    /\ fifo = <<5, 4>>
    /\ Len(tdi_stream) = 27
    /\ [t \in 1..Len(engine.usb) |-> TripSize(engine.usb[t])]
          = <<<<"RW_BYTES_PVE_NVE_MSB", 2>>, <<"RW_BYTES_PVE_NVE_MSB", 1>>,
              <<"RW_BITS_PVE_NVE_MSB", 3>>>>

---------------------------------------------------------------------------
(* Properties of the pending buffer (checked under SpecBuffer).            *)

\* the opcodes among the bytes of a USB write
OpcodesIn(data) == {i \in 1..Len(data) : data[i] \notin {"byte", SEND_IMMEDIATE}}

ImmediatesIn(data) == {i \in 1..Len(data) : data[i] = SEND_IMMEDIATE}

---------------------------------------------------------------------------
(* The TMS command byte (checked under SpecController).                    *)

\* bit k of a byte held most significant bit first (bit 7 is the left-most)
BitOf(byte, k) == byte[8 - k]

\* C37: for a burst of len bits (1..7) with TDI held at d the command is
\* RW_BITS_TMS_PVE_NVE with length field len-1 and a payload byte whose bit 7
\* is d, whose bit k is TMS bit k of the burst for k < len, and whose other
\* bits are 0
C37_TmsCommandByte ==
    (CtlDone("tms") /\ Len(tms_stream) \in 1..7) =>
        /\ Len(engine.usb) = 1
        /\ engine.usb[1].cmd = Cmd("RW_BITS_TMS_PVE_NVE", Len(tms_stream) - 1, 1)
        /\ Len(engine.usb[1].payload) = 1
        /\ LET b == engine.usb[1].payload[1]
           IN  /\ Len(b) = 8
               /\ BitOf(b, 7) = cmd.held
               /\ \A k \in 0..6 :
                     BitOf(b, k) = IF k < Len(tms_stream) THEN At(tms_stream, k) ELSE 0

C37_Witness ==
    /\ CtlDone("tms")
    /\ tms_stream = <<1, 0, 1, 1, 0>>
    /\ cmd.held = 1
    /\ engine.usb[1].payload[1] = <<1, 0, 0, 0, 1, 1, 0, 1>>

---------------------------------------------------------------------------
\* C38: the five TMS bits the ISE workaround suppresses lead from Exit1-IR
\* back to Exit1-IR through the IEEE 1149.1 transitions, and a shift the
\* handler suppresses clocks nothing: when the tracker and the target's TAP
\* agree before it they agree after it, in the state the five bits would
\* have brought both to.
Intercepted ==
    /\ pc = "loop"
    /\ cmd'.kind = "shift"
    /\ cmd'.outcome = "intercepted"

C38_IseSkipIsNeutral ==
    [][Intercepted =>
          /\ tms_stream' = IsePattern
          /\ tap_state = "EXIT_1_IR"
          /\ TapTrack("EXIT_1_IR", tms_stream') = "EXIT_1_IR"
          /\ engine'.clocks = <<>>
          /\ tap_state' = TapTrack(tap_state, tms_stream')
          /\ device.tap = tap_state =>
                /\ device'.tap = tap_state'
                /\ device'.tap = TapTrack(device.tap, tms_stream')]_vars

C38_Witness ==
    /\ adapter = "gpio"
    /\ cmd.kind = "shift"
    /\ cmd.outcome = "intercepted"
    /\ cmd.tap = "EXIT_1_IR"
    /\ tms_stream = <<1, 1, 1, 0, 1>>
    /\ tap_state = "EXIT_1_IR"
    /\ device.tap = "EXIT_1_IR"
    /\ engine.clocks = <<>>
    /\ reply = <<<<31>>>>

---------------------------------------------------------------------------
\* C39: send_data returns or raises on every input: each 7-bit step of the
\* inner loop moves head forward, each pass of the outer loop comes back to
\* its test with head further than it entered, and a return has head = N;
\* with min(R-2, W-3) >= 1 each pass of the byte loop of
\* write_tdi_read_tdo moves its head forward, up to pos.
LoopEnded == pc \in {"returned", "raised"}

C39_Terminates ==
    /\ [][/\ (pc = "while_tms0" /\ pc' = "while_tms0") =>
                /\ engine'.head > engine.head
                /\ engine'.head <= engine.head + 7
                /\ engine'.head <= Len(tms_stream)
          /\ (pc # "while_head" /\ pc' = "while_head") =>
                engine'.head > engine'.entered
          /\ (pc = "write_tdi" /\ pc' = "write_tdi") =>
                /\ Min(FTDI_RD_BUFFER_MAX_LEN(fifo), FTDI_WR_BUFFER_MAX_LEN(fifo)) >= 1
                /\ engine'.chead > engine.chead
                /\ engine'.chead <= engine.pos
          /\ pc' = "returned" => engine'.head = Len(tms_stream)]_vars
    /\ <>LoopEnded

C39_Witness ==
    /\ pc = "returned"
    /\ fifo = <<4, 3>>
    /\ tms_stream = Zeros(17) \o Ones(8) \o Zeros(3)
    /\ engine.head = 28
    /\ engine.entered = 26
    /\ engine.tms0Pos = 26
    /\ engine.chead = 0
    /\ engine.bit_count = 2

===========================================================================
